---- MODULE Spec2Model ----
(***************************************************************************)
(* Wave browser extension: the page-resident content script                *)
(* (src/src/content/content.js: capture engine, selector synthesizer,      *)
(* replay engine) and the background service worker's replay loop          *)
(* (src/src/background/background.js).                                     *)
(*                                                                         *)
(* Strings are sequences of symbols.  A symbol is one character ("a",     *)
(* ",", "\"") or one fixed lexical fragment that the code writes as a      *)
(* literal (a lower-case tag name, an attribute name, ":text(",            *)
(* ":nth-of-type(").  Data that comes from the page (ids, attribute        *)
(* values, class names, text) is always spelled character by character.    *)
(***************************************************************************)
EXTENDS Integers, Sequences, FiniteSets, TLC

\* ------------------------------------------------------------------------
\* Characters and strings
\* ------------------------------------------------------------------------

BS == "\\"
DQ == "\""
NL == "\n"
SP == " "

Digits == {"0", "1", "2", "3", "4", "5", "6", "7", "8", "9"}

HexLetters == {"a", "b", "c", "d", "e", "f"}

Letters ==
    {"a", "b", "c", "d", "e", "f", "g", "h", "i", "j", "k", "l", "m",
     "n", "o", "p", "q", "r", "s", "t", "u", "v", "w", "x", "y", "z"}

HexDigits == Digits \cup HexLetters

Whitespace == {SP, NL}

\* lower-case tag names, written by the code through tagName.toLowerCase()
TagTokens ==
    {"html", "body", "button", "input", "a", "div", "span", "select",
     "textarea", "li", "x-host"}

\* attribute names the code writes as literals
AttrTokens ==
    {"data-testid", "data-test-id", "data-cy", "data-id", "name", "href",
     "aria-label", "title", "placeholder", "role", "onclick"}

\* \w of a JavaScript regular expression
IsWordChar(c) == c \in Letters \cup Digits \cup {"_"} \cup (TagTokens \ {"x-host"})

\* characters CSS.escape leaves alone / that may stand unescaped in an identifier
IsIdentChar(c) == c \in Letters \cup Digits \cup {"-", "_"}

EmptyStr == << >>

\* F applied to the value v
With(v, F(_)) == F(v)

RECURSIVE DropLeadingWs(_)
DropLeadingWs(s) ==
    IF s # EmptyStr /\ Head(s) \in Whitespace THEN DropLeadingWs(Tail(s)) ELSE s

RECURSIVE DropTrailingWs(_)
DropTrailingWs(s) ==
    IF s # EmptyStr /\ s[Len(s)] \in Whitespace
        THEN DropTrailingWs(SubSeq(s, 1, Len(s) - 1))
        ELSE s

\* String.prototype.trim
Trim(s) == DropTrailingWs(DropLeadingWs(s))

\* String.prototype.split(sep) for a one-character separator
RECURSIVE SplitAcc(_, _, _, _)
SplitAcc(s, sep, cur, acc) ==
    IF s = EmptyStr THEN Append(acc, cur)
    ELSE IF Head(s) = sep THEN SplitAcc(Tail(s), sep, EmptyStr, Append(acc, cur))
    ELSE SplitAcc(Tail(s), sep, Append(cur, Head(s)), acc)

Split(s, sep) == SplitAcc(s, sep, EmptyStr, << >>)

StartsWithAt(s, sub, i) ==
    /\ i + Len(sub) - 1 <= Len(s)
    /\ \A k \in 1..Len(sub) : s[i + k - 1] = sub[k]

\* String.prototype.includes
Contains(s, sub) == \E i \in 1..(Len(s) + 1) : StartsWithAt(s, sub, i)

\* text.replace(/"/g, '\\"')
RECURSIVE EscapeQuotes(_)
EscapeQuotes(s) ==
    IF s = EmptyStr THEN EmptyStr
    ELSE IF Head(s) = DQ THEN <<BS, DQ>> \o EscapeQuotes(Tail(s))
    ELSE <<Head(s)>> \o EscapeQuotes(Tail(s))

\* text.replace(/\\"/g, '"')
RECURSIVE UnescapeQuotes(_)
UnescapeQuotes(s) ==
    IF s = EmptyStr THEN EmptyStr
    ELSE IF Len(s) >= 2 /\ s[1] = BS /\ s[2] = DQ
        THEN <<DQ>> \o UnescapeQuotes(SubSeq(s, 3, Len(s)))
    ELSE <<Head(s)>> \o UnescapeQuotes(Tail(s))

DigitSeq == <<"0", "1", "2", "3", "4", "5", "6", "7", "8", "9">>

\* decimal spelling of a non-negative integer (template-literal ${index})
RECURSIVE DecimalStr(_)
DecimalStr(n) ==
    IF n < 10 THEN <<DigitSeq[n + 1]>>
    ELSE Append(DecimalStr(n \div 10), DigitSeq[(n % 10) + 1])

DigitVal(c) == CHOOSE k \in 0..9 : DigitSeq[k + 1] = c

RECURSIVE DecimalVal(_)
DecimalVal(s) ==
    IF s = EmptyStr THEN 0
    ELSE 10 * DecimalVal(SubSeq(s, 1, Len(s) - 1)) + DigitVal(s[Len(s)])

\* CSS.escape (CSSOM "serialize an identifier")
RECURSIVE CssEscapeFrom(_, _)
CssEscapeFrom(s, i) ==
    IF i > Len(s) THEN EmptyStr
    ELSE
        LET c == s[i]
            piece ==
                IF c = NL THEN <<BS, "a", SP>>
                ELSE IF c \in Digits /\ (i = 1 \/ (i = 2 /\ s[1] = "-"))
                    THEN <<BS, "3", c, SP>>
                ELSE IF c = "-" /\ i = 1 /\ Len(s) = 1 THEN <<BS, "-">>
                ELSE IF IsIdentChar(c) THEN <<c>>
                ELSE <<BS, c>>
        IN piece \o CssEscapeFrom(s, i + 1)

CssEscape(s) == CssEscapeFrom(s, 1)

\* ------------------------------------------------------------------------
\* The browser's selector engine (document.querySelector / querySelectorAll)
\* for the selector forms the synthesizer writes: tag, #id, .class,
\* [attr="v"], [attr*="v"], :nth-of-type(n), joined by ">" or whitespace.
\* Anything else is a SyntaxError (ok = FALSE).
\* ------------------------------------------------------------------------

\* the character a hexadecimal escape stands for (only those the model writes)
HexEscapeChar(hex) ==
    IF Len(hex) = 2 /\ hex[1] = "3" /\ hex[2] \in Digits THEN hex[2]
    ELSE IF hex = <<"a">> THEN NL
    ELSE "?"

RECURSIVE HexRunEnd(_, _, _)
HexRunEnd(s, i, n) ==
    IF n < 6 /\ i <= Len(s) /\ s[i] \in HexDigits THEN HexRunEnd(s, i + 1, n + 1) ELSE i

\* an escape starting at the backslash s[i]
ReadEscape(s, i) ==
    IF i + 1 > Len(s) THEN [ok |-> FALSE, ch |-> "?", next |-> i + 1]
    ELSE IF s[i + 1] \in HexDigits THEN
        With(HexRunEnd(s, i + 1, 0), LAMBDA j :
            [ok |-> TRUE, ch |-> HexEscapeChar(SubSeq(s, i + 1, j - 1)),
             next |-> IF j <= Len(s) /\ s[j] \in Whitespace THEN j + 1 ELSE j])
    ELSE IF s[i + 1] = NL THEN [ok |-> FALSE, ch |-> "?", next |-> i + 2]
    ELSE [ok |-> TRUE, ch |-> s[i + 1], next |-> i + 2]

RECURSIVE ReadIdentTail(_, _, _)
ReadIdentTail(s, i, acc) ==
    IF i > Len(s) THEN [ok |-> TRUE, val |-> acc, next |-> i]
    ELSE IF IsIdentChar(s[i]) THEN ReadIdentTail(s, i + 1, Append(acc, s[i]))
    ELSE IF s[i] = BS THEN
        With(ReadEscape(s, i), LAMBDA e :
            IF e.ok THEN ReadIdentTail(s, e.next, Append(acc, e.ch))
            ELSE [ok |-> FALSE, val |-> acc, next |-> i])
    ELSE [ok |-> TRUE, val |-> acc, next |-> i]

\* a CSS identifier starting at s[i]
ReadIdent(s, i) ==
    IF \/ i > Len(s)
       \/ s[i] \in Digits
       \/ (s[i] = "-" /\ (i + 1 > Len(s) \/ s[i + 1] \in Digits))
    THEN [ok |-> FALSE, val |-> EmptyStr, next |-> i]
    ELSE With(ReadIdentTail(s, i, EmptyStr), LAMBDA r :
            IF ~r.ok \/ r.val = EmptyStr
                THEN [ok |-> FALSE, val |-> EmptyStr, next |-> i]
                ELSE r)

\* the body of a double-quoted string, s[i] being the first character after
\* the opening quote; end of input closes the string
RECURSIVE ReadString(_, _, _)
ReadString(s, i, acc) ==
    IF i > Len(s) THEN [ok |-> TRUE, val |-> acc, next |-> i]
    ELSE IF s[i] = DQ THEN [ok |-> TRUE, val |-> acc, next |-> i + 1]
    ELSE IF s[i] = NL THEN [ok |-> FALSE, val |-> acc, next |-> i]
    ELSE IF s[i] = BS THEN
        IF i + 1 > Len(s) THEN [ok |-> TRUE, val |-> acc, next |-> i + 1]
        ELSE IF s[i + 1] = NL THEN ReadString(s, i + 2, acc)
        ELSE With(ReadEscape(s, i), LAMBDA e :
                ReadString(s, e.next, Append(acc, e.ch)))
    ELSE ReadString(s, i + 1, Append(acc, s[i]))

RECURSIVE DigitRunEnd(_, _)
DigitRunEnd(s, i) == IF i <= Len(s) /\ s[i] \in Digits THEN DigitRunEnd(s, i + 1) ELSE i

RECURSIVE SkipWs(_, _)
SkipWs(s, i) == IF i <= Len(s) /\ s[i] \in Whitespace THEN SkipWs(s, i + 1) ELSE i

Simple(kind, name, val, n) == [kind |-> kind, name |-> name, val |-> val, n |-> n]

NoParse == [ok |-> FALSE, parts |-> << >>, next |-> 0]

\* the simple selectors of one compound selector, from s[i] on
RECURSIVE ReadCompound(_, _, _)
ReadCompound(s, i, parts) ==
    IF i > Len(s) \/ s[i] \in Whitespace \cup {">"}
        THEN [ok |-> parts # << >>, parts |-> parts, next |-> i]
    ELSE IF s[i] \in TagTokens THEN
        IF parts = << >>
            THEN ReadCompound(s, i + 1, <<Simple("tag", s[i], EmptyStr, 0)>>)
            ELSE NoParse
    ELSE IF s[i] \in {"#", "."} THEN
        With(ReadIdent(s, i + 1), LAMBDA r :
            IF r.ok
                THEN ReadCompound(s, r.next,
                        Append(parts, Simple(IF s[i] = "#" THEN "id" ELSE "class",
                                             "", r.val, 0)))
                ELSE NoParse)
    ELSE IF s[i] = "[" THEN
        IF /\ i + 3 <= Len(s)
           /\ s[i + 1] \in AttrTokens
           /\ s[i + 2] \in {"=", "*="}
           /\ s[i + 3] = DQ
        THEN With(ReadString(s, i + 4, EmptyStr), LAMBDA r :
             With(SkipWs(s, r.next), LAMBDA j :
                IF ~r.ok \/ (j <= Len(s) /\ s[j] # "]") THEN NoParse
                ELSE ReadCompound(s, IF j > Len(s) THEN j ELSE j + 1,
                        Append(parts, Simple(IF s[i + 2] = "=" THEN "attr" ELSE "attrsub",
                                             s[i + 1], r.val, 0)))))
        ELSE NoParse
    ELSE IF s[i] = ":nth-of-type(" THEN
        With(DigitRunEnd(s, i + 1), LAMBDA j :
            IF j > i + 1 /\ (j > Len(s) \/ s[j] = ")")
                THEN ReadCompound(s, j + 1,
                        Append(parts, Simple("nth", "", EmptyStr,
                                             DecimalVal(SubSeq(s, i + 1, j - 1)))))
                ELSE NoParse)
    ELSE NoParse

\* a complex selector: compounds[k] is joined to compounds[k+1] by combs[k]
RECURSIVE ReadComplex(_, _, _, _)
ReadComplex(s, i, compounds, combs) ==
    With(ReadCompound(s, i, << >>), LAMBDA c :
        IF ~c.ok THEN [ok |-> FALSE, compounds |-> << >>, combs |-> << >>]
        ELSE With(SkipWs(s, c.next), LAMBDA j :
                IF j > Len(s)
                    THEN [ok |-> TRUE, compounds |-> Append(compounds, c.parts),
                          combs |-> combs]
                ELSE IF s[j] = ">"
                    THEN ReadComplex(s, SkipWs(s, j + 1), Append(compounds, c.parts),
                                     Append(combs, "child"))
                ELSE ReadComplex(s, j, Append(compounds, c.parts),
                                 Append(combs, "descendant"))))

ParseSelector(s) == ReadComplex(s, SkipWs(s, 1), << >>, << >>)

\* ------------------------------------------------------------------------
\* The DOM.  A document is a sequence of element records in document
\* order; dom[1] is <html>, dom[2] is <body>.  parent = 0 is a null
\* parentElement; tree = 0 is the document tree, tree = h the shadow tree
\* of host element h (not reached by document.querySelectorAll).
\* An absent attribute and an empty one are both EmptyStr.
\* ------------------------------------------------------------------------

NoAttrs == [a \in AttrTokens |-> EmptyStr]

\* an element with no id, attributes, classes or text; fixtures override fields
Elem(tagName, parent, tree) ==
    [tagName |-> tagName, id |-> EmptyStr, attrs |-> NoAttrs, className |-> << >>,
     text |-> EmptyStr, parent |-> parent, tree |-> tree, hidden |-> FALSE,
     cursor |-> "auto", editable |-> FALSE]

\* tagName.toLowerCase()
ToLowerCase(tagName) ==
    CASE tagName = "HTML" -> "html"
      [] tagName = "BODY" -> "body"
      [] tagName = "BUTTON" -> "button"
      [] tagName = "INPUT" -> "input"
      [] tagName = "A" -> "a"
      [] tagName = "DIV" -> "div"
      [] tagName = "SPAN" -> "span"
      [] tagName = "SELECT" -> "select"
      [] tagName = "TEXTAREA" -> "textarea"
      [] tagName = "LI" -> "li"
      [] tagName = "X-HOST" -> "x-host"
      [] tagName = "svg" -> "svg"

ElementIds(dom) == 1..Len(dom)

DocumentElements(dom) == {e \in ElementIds(dom) : dom[e].tree = 0}

\* parent.children restricted to one tag, in document order
RECURSIVE SetToSortedSeq(_)
SetToSortedSeq(S) ==
    IF S = {} THEN << >>
    ELSE LET m == CHOOSE x \in S : \A y \in S : x <= y
         IN <<m>> \o SetToSortedSeq(S \ {m})

ChildrenOf(dom, p) == {c \in ElementIds(dom) : dom[c].parent = p}

\* Node.textContent: the element's own text followed by its children's
RECURSIVE ConcatText(_, _)
TextContent(dom, e) == ConcatText(dom, <<e>>)
ConcatText(dom, es) ==
    IF es = << >> THEN EmptyStr
    ELSE dom[Head(es)].text
            \o ConcatText(dom, SetToSortedSeq(ChildrenOf(dom, Head(es))))
            \o ConcatText(dom, Tail(es))

\* the host chain: the parent element, or the host of the shadow tree
LayoutParent(dom, e) == IF dom[e].parent # 0 THEN dom[e].parent ELSE dom[e].tree

\* isVisible: the element's own computed style, and offsetParent, which is
\* null for <html>/<body> and under any display:none ancestor, and undefined
\* for an SVG element
RECURSIVE Rendered(_, _)
Rendered(dom, e) ==
    IF e = 0 THEN TRUE ELSE ~dom[e].hidden /\ Rendered(dom, LayoutParent(dom, e))

isVisible(dom, e) ==
    /\ ~dom[e].hidden
    /\ dom[e].tagName \notin {"HTML", "BODY"}
    /\ dom[e].tagName = "svg" \/ Rendered(dom, e)

TypeIndex(dom, e) ==
    Cardinality({c \in ElementIds(dom) :
                    /\ dom[c].parent = dom[e].parent
                    /\ dom[c].tree = dom[e].tree
                    /\ dom[c].tagName = dom[e].tagName
                    /\ c <= e})

MatchesSimple(dom, e, p) ==
    CASE p.kind = "tag" -> ToLowerCase(dom[e].tagName) = p.name
      [] p.kind = "id" -> dom[e].id = p.val
      [] p.kind = "class" -> \E k \in 1..Len(dom[e].className) : dom[e].className[k] = p.val
      [] p.kind = "attr" -> dom[e].attrs[p.name] # EmptyStr /\ dom[e].attrs[p.name] = p.val
      [] p.kind = "attrsub" -> p.val # EmptyStr /\ Contains(dom[e].attrs[p.name], p.val)
      [] p.kind = "nth" -> TypeIndex(dom, e) = p.n

MatchesCompound(dom, e, parts) ==
    \A k \in 1..Len(parts) : MatchesSimple(dom, e, parts[k])

RECURSIVE HasMatchingAncestor(_, _, _, _)
RECURSIVE MatchesUpTo(_, _, _, _)
MatchesUpTo(dom, e, sel, k) ==
    /\ MatchesCompound(dom, e, sel.compounds[k])
    /\ \/ k = 1
       \/ /\ sel.combs[k - 1] = "child"
          /\ dom[e].parent # 0
          /\ MatchesUpTo(dom, dom[e].parent, sel, k - 1)
       \/ /\ sel.combs[k - 1] = "descendant"
          /\ HasMatchingAncestor(dom, dom[e].parent, sel, k - 1)
HasMatchingAncestor(dom, a, sel, k) ==
    /\ a # 0
    /\ \/ MatchesUpTo(dom, a, sel, k)
       \/ HasMatchingAncestor(dom, dom[a].parent, sel, k)

\* document.querySelectorAll(selector): ok = FALSE is the SyntaxError
querySelectorAll(dom, selector) ==
    With(ParseSelector(selector), LAMBDA sel :
        IF ~sel.ok THEN [ok |-> FALSE, elems |-> {}]
        ELSE [ok |-> TRUE,
              elems |-> {e \in DocumentElements(dom) :
                            MatchesUpTo(dom, e, sel, Len(sel.compounds))}])

\* document.querySelectorAll(selector).length
MatchCount(dom, selector) == Cardinality(querySelectorAll(dom, selector).elems)

\* the first element of a non-empty set in document order
FirstOf(S) == CHOOSE x \in S : \A y \in S : x <= y

\* ------------------------------------------------------------------------
\* Selector generation (content.js, generateSelector and helpers)
\* ------------------------------------------------------------------------

MaxIdLength == 50
MaxClassLength == 30
UuidLength == 36
MaxTextLength == 50
MaxPathLength == 4

AllIn(s, S) == \A k \in 1..Len(s) : s[k] \in S

\* the stability filter without its UUID test
isStableIdUuidAllowed(id) ==
    /\ ~(/\ Len(id) >= 4
         /\ id[1] = ":"
         /\ id[2] = "r"
         /\ id[Len(id)] = ":"
         /\ AllIn(SubSeq(id, 3, Len(id) - 1), Letters \cup Digits))
    /\ ~(Len(id) >= 1 /\ AllIn(id, Digits))
    /\ ~(Len(id) > MaxIdLength)

isStableId(id) ==
    /\ ~(Len(id) = UuidLength /\ AllIn(id, HexDigits \cup {"-"}))
    /\ ~(/\ Len(id) >= 4
         /\ id[1] = ":"
         /\ id[2] = "r"
         /\ id[Len(id)] = ":"
         /\ AllIn(SubSeq(id, 3, Len(id) - 1), Letters \cup Digits))
    /\ ~(Len(id) >= 1 /\ AllIn(id, Digits))
    /\ ~(Len(id) > MaxIdLength)

\* the index of the first "-" of cls, 0 when there is none
RECURSIVE DashIndex(_, _)
DashIndex(cls, i) ==
    IF i > Len(cls) THEN 0 ELSE IF cls[i] = "-" THEN i ELSE DashIndex(cls, i + 1)

isStableClass(cls) ==
    With(DashIndex(cls, 1), LAMBDA d :
    With(SubSeq(cls, 1, d - 1), LAMBDA before :
    With(SubSeq(cls, d + 1, Len(cls)), LAMBDA after :
        /\ ~(/\ d \in 2..4
             /\ AllIn(before, Letters)
             /\ Len(after) >= 4
             /\ AllIn(after, HexDigits))
        /\ ~(/\ d = 4
             /\ before = <<"c", "s", "s">>
             /\ Len(after) >= 1
             /\ AllIn(after, Letters \cup Digits))
        /\ ~(/\ d = 3
             /\ before = <<"s", "c">>
             /\ Len(after) >= 1
             /\ AllIn(after, Letters))
        /\ ~(Len(cls) > MaxClassLength))))

AttrSelector(prefix, attr, op, value) ==
    prefix \o <<"[", attr, op, DQ>> \o CssEscape(value) \o <<DQ, "]">>

StableClasses(className) == SelectSeq(className, isStableClass)

\* classes.map(c => CSS.escape(c)).join('.') behind a leading '.'
RECURSIVE ClassSuffix(_)
ClassSuffix(classes) ==
    IF classes = << >> THEN EmptyStr
    ELSE <<".">> \o CssEscape(Head(classes)) \o ClassSuffix(Tail(classes))

\* the part of s before the first character of stop
RECURSIVE UpTo(_, _)
UpTo(s, stop) ==
    IF s = EmptyStr \/ Head(s) \in stop THEN EmptyStr
    ELSE <<Head(s)>> \o UpTo(Tail(s), stop)

\* new URL(href, window.location.origin).pathname, for a relative href
Pathname(href) ==
    With(UpTo(href, {"?", "#"}), LAMBDA path :
        IF path # EmptyStr /\ Head(path) = "/" THEN path ELSE <<"/">> \o path)

\* one level of getCssPath's walk: the segment for current
PathSegment(dom, current) ==
    LET el == dom[current]
        uniqueAttrs == <<"data-testid", "data-test-id", "data-cy", "data-id",
                         "name", "aria-label", "role">>
        isUnique(attr) ==
            /\ el.attrs[attr] # EmptyStr
            /\ MatchCount(dom, AttrSelector(<<ToLowerCase(el.tagName)>>, attr, "=",
                                            el.attrs[attr])) = 1
    IN With(SelectSeq(uniqueAttrs, isUnique), LAMBDA found :
       With(StableClasses(el.className), LAMBDA stable :
       With({c \in ChildrenOf(dom, el.parent) :
                dom[c].tree = el.tree /\ dom[c].tagName = el.tagName}, LAMBDA siblings :
        IF found # << >>
            THEN AttrSelector(<<ToLowerCase(el.tagName)>>, Head(found), "=",
                              el.attrs[Head(found)])
            ELSE <<ToLowerCase(el.tagName)>>
                 \o ClassSuffix(SubSeq(stable, 1, IF Len(stable) < 2 THEN Len(stable) ELSE 2))
                 \o (IF /\ el.parent # 0
                        /\ Cardinality(siblings) > 1
                        /\ Cardinality({c \in siblings :
                               c = current \/ dom[c].className = el.className}) > 1
                        THEN <<":nth-of-type(">> \o DecimalStr(TypeIndex(dom, current))
                             \o <<")">>
                        ELSE EmptyStr))))

\* path.join(' > ')
RECURSIVE JoinPath(_)
JoinPath(path) ==
    IF path = << >> THEN EmptyStr
    ELSE IF Len(path) = 1 THEN Head(path)
    ELSE Head(path) \o <<SP, ">", SP>> \o JoinPath(Tail(path))

RECURSIVE CssPathWalk(_, _, _)
CssPathWalk(dom, current, path) ==
    IF current = 0 THEN path
    ELSE IF dom[current].id # EmptyStr /\ isStableId(dom[current].id)
        THEN <<(<<"#">> \o CssEscape(dom[current].id))>> \o path
    ELSE With(<<PathSegment(dom, current)>> \o path, LAMBDA longer :
            IF Len(longer) > MaxPathLength THEN longer
            ELSE CssPathWalk(dom, dom[current].parent, longer))

\* a CSS path for the elements of the document's own tree only
getCssPathLightDomOnly(dom, element) ==
    IF dom[element].tree # 0 THEN EmptyStr
    ELSE JoinPath(CssPathWalk(dom, element, << >>))

getCssPath(dom, element) == JoinPath(CssPathWalk(dom, element, << >>))

\* the first non-empty string of a sequence of candidates, else EmptyStr
RECURSIVE FirstNonEmpty(_)
FirstNonEmpty(cands) ==
    IF cands = << >> THEN EmptyStr
    ELSE IF Head(cands) # EmptyStr THEN Head(cands)
    ELSE FirstNonEmpty(Tail(cands))

\* selector when document.querySelectorAll(selector).length === 1
IfUnique(dom, selector) ==
    IF MatchCount(dom, selector) = 1 THEN selector ELSE EmptyStr

\* Priority 1: a stable id
SelectorById(dom, element) ==
    IF dom[element].id # EmptyStr /\ isStableId(dom[element].id)
        THEN <<"#">> \o CssEscape(dom[element].id)
        ELSE EmptyStr

\* Priority 2: data-testid, data-test-id, data-cy, data-id
SelectorByTestId(dom, element) ==
    With(SelectSeq(<<"data-testid", "data-test-id", "data-cy", "data-id">>,
                   LAMBDA a : dom[element].attrs[a] # EmptyStr), LAMBDA present :
        IF present # << >>
            THEN AttrSelector(EmptyStr, Head(present), "=",
                              dom[element].attrs[Head(present)])
            ELSE EmptyStr)

\* Priority 3: name of a form element
SelectorByName(dom, element) ==
    IF /\ dom[element].attrs["name"] # EmptyStr
       /\ dom[element].tagName \in {"INPUT", "SELECT", "TEXTAREA"}
        THEN AttrSelector(<<ToLowerCase(dom[element].tagName)>>, "name", "=",
                          dom[element].attrs["name"])
        ELSE EmptyStr

\* Priority 4: href of a link
SelectorByHref(dom, element) ==
    LET href == dom[element].attrs["href"]
    IN IF dom[element].tagName = "A" /\ href # EmptyStr
              /\ href # <<"#">> /\ Head(href) # "javascript:"
           THEN With(Pathname(href), LAMBDA pathname :
                    FirstNonEmpty(<<IfUnique(dom, AttrSelector(<<"a">>, "href", "=", href)),
                                    IF pathname # <<"/">>
                                        THEN IfUnique(dom, AttrSelector(<<"a">>, "href", "*=",
                                                                        pathname))
                                        ELSE EmptyStr>>))
           ELSE EmptyStr

\* Priority 5: unique trimmed text of a button, link, span or div
SelectorByText(dom, element) ==
    With(Trim(TextContent(dom, element)), LAMBDA text :
        IF /\ dom[element].tagName \in {"BUTTON", "A", "SPAN", "DIV"}
           /\ Len(text) > 0
           /\ Len(text) < MaxTextLength
           /\ Cardinality({c \in querySelectorAll(dom,
                                    <<ToLowerCase(dom[element].tagName)>>).elems :
                              Trim(TextContent(dom, c)) = text}) = 1
            THEN <<ToLowerCase(dom[element].tagName), ":text(", DQ>>
                 \o EscapeQuotes(text) \o <<DQ, ")">>
            ELSE EmptyStr)

\* Priority 6, 7: aria-label, title
SelectorByUniqueAttr(dom, element, attr) ==
    IF dom[element].attrs[attr] # EmptyStr
        THEN IfUnique(dom, AttrSelector(EmptyStr, attr, "=", dom[element].attrs[attr]))
        ELSE EmptyStr

\* Priority 8: a unique combination of stable classes
SelectorByClass(dom, element) ==
    With(StableClasses(dom[element].className), LAMBDA classes :
        IF classes # << >>
            THEN IfUnique(dom, <<ToLowerCase(dom[element].tagName)>> \o ClassSuffix(classes))
            ELSE EmptyStr)

\* Priority 9: placeholder of an input
SelectorByPlaceholder(dom, element) ==
    IF dom[element].tagName = "INPUT" /\ dom[element].attrs["placeholder"] # EmptyStr
        THEN IfUnique(dom, AttrSelector(<<"input">>, "placeholder", "=",
                                        dom[element].attrs["placeholder"]))
        ELSE EmptyStr

\* the cascade with the test-marker level ahead of the id level
generateSelectorTestIdFirst(dom, element) ==
    FirstNonEmpty(<<SelectorByTestId(dom, element),
                    SelectorById(dom, element),
                    SelectorByName(dom, element),
                    SelectorByHref(dom, element),
                    SelectorByText(dom, element),
                    SelectorByUniqueAttr(dom, element, "aria-label"),
                    SelectorByUniqueAttr(dom, element, "title"),
                    SelectorByClass(dom, element),
                    SelectorByPlaceholder(dom, element),
                    getCssPath(dom, element)>>)

generateSelector(dom, element) ==
    FirstNonEmpty(<<SelectorById(dom, element),
                    SelectorByTestId(dom, element),
                    SelectorByName(dom, element),
                    SelectorByHref(dom, element),
                    SelectorByText(dom, element),
                    SelectorByUniqueAttr(dom, element, "aria-label"),
                    SelectorByUniqueAttr(dom, element, "title"),
                    SelectorByClass(dom, element),
                    SelectorByPlaceholder(dom, element),
                    getCssPath(dom, element)>>)

\* ------------------------------------------------------------------------
\* Element resolution (content.js, waitForElement): one pass of the loop
\* ------------------------------------------------------------------------

RECURSIVE IndexOfSym(_, _, _)
IndexOfSym(s, sym, i) ==
    IF i > Len(s) THEN 0 ELSE IF s[i] = sym THEN i ELSE IndexOfSym(s, sym, i + 1)

\* sel.match(/^(\w+):text\("(.+)"\)$/)
TextMatch(sel) ==
    With(IndexOfSym(sel, ":text(", 1), LAMBDA k :
        IF /\ k >= 2
           /\ \A j \in 1..(k - 1) : IsWordChar(sel[j])
           /\ Len(sel) >= k + 4
           /\ sel[k + 1] = DQ
           /\ sel[Len(sel) - 1] = DQ
           /\ sel[Len(sel)] = ")"
           /\ NL \notin {sel[j] : j \in (k + 2)..(Len(sel) - 2)}
        THEN [ok |-> TRUE, tag |-> SubSeq(sel, 1, k - 1),
              text |-> SubSeq(sel, k + 2, Len(sel) - 2)]
        ELSE [ok |-> FALSE, tag |-> EmptyStr, text |-> EmptyStr])

\* the first element of S in document order that is visible, 0 for none
FirstVisible(dom, S) ==
    With({el \in S : isVisible(dom, el)}, LAMBDA hits :
        IF hits = {} THEN 0 ELSE FirstOf(hits))

\* the element one alternative resolves to now, 0 for none
ResolveAlternative(dom, sel) ==
    With(TextMatch(sel), LAMBDA textMatch :
        IF textMatch.ok
            THEN With(UnescapeQuotes(textMatch.text), LAMBDA unescapedText :
                    FirstVisible(dom, {el \in querySelectorAll(dom, textMatch.tag).elems :
                                          Trim(TextContent(dom, el)) = unescapedText}))
        ELSE With(querySelectorAll(dom, sel), LAMBDA found :
                IF found.ok /\ found.elems # {} /\ isVisible(dom, FirstOf(found.elems))
                    THEN FirstOf(found.elems)
                    ELSE 0))

RECURSIVE MapTrim(_)
MapTrim(parts) ==
    IF parts = << >> THEN << >> ELSE <<Trim(Head(parts))>> \o MapTrim(Tail(parts))

\* selector.split(',').map(s => s.trim())
Alternatives(selector) == MapTrim(Split(selector, ","))

RECURSIVE ResolveFirst(_, _)
ResolveFirst(dom, selectors) ==
    IF selectors = << >> THEN 0
    ELSE With(ResolveAlternative(dom, Head(selectors)), LAMBDA el :
            IF el # 0 THEN el ELSE ResolveFirst(dom, Tail(selectors)))

\* the body of waitForElement's while loop: the element found, or 0
PollOnce(dom, selector) == ResolveFirst(dom, Alternatives(selector))

\* ------------------------------------------------------------------------
\* The page the content script lives in
\* ------------------------------------------------------------------------

IndicatorId ==
    <<"w", "a", "v", "e", "-", "r", "e", "c", "o", "r", "d", "i", "n", "g", "-",
      "i", "n", "d", "i", "c", "a", "t", "o", "r">>

\* ids that look generated: UUID-shaped, React's, a number, too long
UuidId ==
    <<"3", "f", "2", "9", "a", "c", "0", "0", "-", "e", "5", "f", "6", "-",
    "7", "8", "9", "0", "-", "a", "b", "c", "d", "-", "1", "2", "3", "4",
    "5", "6", "7", "8", "9", "0", "a", "b">>

ReactId == <<":", "r", "1", ":">>

NumericId == <<"1", "2">>

LongId == [k \in 1..(MaxIdLength + 1) |-> "a"]

UnstableIds == {UuidId, ReactId, NumericId, LongId}

\* 'submit-btn-' + a UUID
SubmitBtnId == <<"s", "u", "b", "m", "i", "t", "-", "b", "t", "n", "-">>
    \o UuidId

\* document.body is the second element of a document, after <html>
Body == 2

\* the other elements, by their position in Page
InputA == Body + 1
ButtonB == InputA + 1
IconB == ButtonB + 1
SelectS == IconB + 1
EditableE == SelectS + 1
Host1 == EditableE + 1
PlayButton == Host1 + 1
Host2 == PlayButton + 1
DeepButton == Host2 + 1
SubmitButton == DeepButton + 1
TextArea == SubmitButton + 1
SvgIcon == TextArea + 1
Indicator == SvgIcon + 1
IndicatorLabel == Indicator + 1

\* every element the page can hold; which of them are connected is state
Page ==
    <<Elem("HTML", 0, 0),
      Elem("BODY", 1, 0),
      [Elem("INPUT", 2, 0) EXCEPT !.attrs = [NoAttrs EXCEPT !["name"] = <<"q">>]],
      [Elem("BUTTON", 2, 0) EXCEPT !.attrs = [NoAttrs EXCEPT !["data-testid"] = <<"g", "o">>]],
      [Elem("SPAN", ButtonB, 0) EXCEPT !.text = <<"o", "k">>],
      [Elem("SELECT", 2, 0) EXCEPT !.id = <<"s", "e", "l">>],
      [Elem("DIV", 2, 0) EXCEPT !.className = << <<"e", "d">> >>, !.editable = TRUE],
      Elem("X-HOST", 2, 0),
      [Elem("BUTTON", 0, Host1) EXCEPT !.attrs = [NoAttrs EXCEPT !["data-cy"] = <<"p", "l", "a", "y">>]],
      Elem("X-HOST", 0, Host1),
      [Elem("BUTTON", 0, Host2) EXCEPT !.text = <<"x">>],
      [Elem("BUTTON", 2, 0) EXCEPT
            !.id = SubmitBtnId,
            !.attrs = [NoAttrs EXCEPT
                          !["data-testid"] = <<"s", "u", "b", "m", "i", "t">>]],
      [Elem("TEXTAREA", 2, 0) EXCEPT !.id = <<"t", "a">>],
      [Elem("svg", 2, 0) EXCEPT !.attrs = [NoAttrs EXCEPT !["data-testid"] = <<"i", "c">>]],
      [Elem("DIV", 2, 0) EXCEPT !.id = IndicatorId],
      [Elem("SPAN", Indicator, 0) EXCEPT !.text = <<"r", "e", "c">>]>>

PageIds == 1..IndicatorLabel
Hosts == {Host1, Host2}
ValueElems == {InputA, SelectS}
Detached == 0 - 1

EventTypes == {"click", "input", "change"}
Window == <<"window", 0>>
Document == <<"document", 0>>
ShadowRootOf(h) == <<"shadowRoot", h>>

Null == <<"null">>
NoTimer == 0

\* the content script's debounce window (setTimeout(..., 500))
DebounceMs == 500

VARIABLES
    now,                  \* the clock, in ms
    inserted,             \* the hosts currently inserted in their parent tree
    shadowed,             \* the hosts that have a shadow root
    hiddenEls,            \* the elements styled display:none
    value,                \* the .value of the form elements
    isRecording,          \* content.js isRecording
    shadowObserver,       \* content.js shadowObserver is not null
    attachedShadowRoots,  \* content.js attachedShadowRoots (roots by host)
    observing,            \* number of MutationObservers observing document.body
    mutationQueue,        \* added nodes not yet delivered to the observer callback
    listeners,            \* registered capture listeners: <<target, type>>
    indicator,            \* #wave-recording-indicator is in the document
    timers,               \* pending debounce timers
    waveInputTimeout,     \* target._waveInputTimeout, per element
    nextTimerId,
    sent,                 \* the RECORD_STEP messages sent, in order
    events,               \* history: the DOM events dispatched so far
    prevMsg,              \* history: the RECORDING_* message handled before the last
    lastMsg,              \* history: the last RECORDING_* message handled
    registrations,        \* history: times each root got its listeners, this session
    rescanned             \* history: roots scanned again after they got listeners

captureVars ==
    <<now, inserted, shadowed, hiddenEls, value, isRecording, shadowObserver,
      attachedShadowRoots, observing, mutationQueue, listeners, indicator, timers,
      waveInputTimeout, nextTimerId, sent, events, prevMsg, lastMsg, registrations,
      rescanned>>

VARIABLES
    execPc,               \* where executeStep is: idle, polling, settling, done
    execStep,             \* the step of the EXECUTE_STEP message
    execStart,            \* waitForElement's start
    wakeAt,               \* when the pending sleep() resolves
    execElement,          \* what waitForElement returned (0: nothing yet, or null)
    effects,              \* what executeStep did to the page, in order
    responses,            \* the sendResponse calls of the EXECUTE_STEP handler
    domChanges,           \* number of changes the page made during the step
    polls,                \* history: iterations of waitForElement's loop so far
    changedAt,            \* history: when the page last changed, until the next poll
    doneAt                \* history: when executeStep settled

execVars ==
    <<execPc, execStep, execStart, wakeAt, execElement, effects, responses, domChanges,
      polls, changedAt, doneAt>>

VARIABLES
    playWorkflow,         \* the stored workflow PLAY_WORKFLOW asks for
    tabUrl,               \* the url of the active tab
    playPc,               \* where handlePlayWorkflow is
    playIdx,              \* handlePlayWorkflow's loop index i
    playWake,             \* when the pending sleep() resolves
    playLog,              \* history: steps issued, sent, completed, failed
    playResult,           \* what handlePlayWorkflow answered
    attemptLog            \* history: EXECUTE_STEP sends, how they settled, re-ensures

playVars ==
    <<playWorkflow, tabUrl, playPc, playIdx, playWake, playLog, playResult, attemptLog>>

VARIABLES
    selDom,               \* the document a locator is synthesized in
    selTarget,            \* the element generateSelector was called on
    selLocator,           \* what generateSelector returned
    selResolved,          \* what waitForElement returned for it
    selPc                 \* idle, synthesized, resolved

selVars == <<selDom, selTarget, selLocator, selResolved, selPc>>

VARIABLES
    bgIsRecording,        \* background.js isRecording
    currentWorkflow,      \* background.js currentWorkflow (id 0: null)
    recordingTabId,       \* background.js recordingTabId (0: null)
    starting,             \* handleStartRecording calls past their guard, awaiting
    stopping,             \* handleStopRecording calls past their guard, awaiting
    tabRecording,         \* per tab: isRecording of its content script
    recordMsgs,           \* RECORD_STEP messages sent and not yet received
    runs,                 \* per replay: where handlePlayWorkflow / runHealthCheck is
    created,              \* history: number of workflows created so far
    stepsSent,            \* history: number of RECORD_STEP messages sent so far
    sessionLog            \* history: how START_RECORDING and STOP_RECORDING calls ended

orchVars ==
    <<bgIsRecording, currentWorkflow, recordingTabId, starting, stopping, tabRecording,
      recordMsgs, runs, created, stepsSent, sessionLog>>

VARIABLES
    workflows,            \* chrome.storage.local: the value of the key 'workflows'
    schedules,            \* chrome.storage.local: the value of the key 'schedules'
    alarms,               \* chrome.alarms: the workflows with a health-check alarm
    calls,                \* storage calls of the orchestrator that are under way
    callsMade,            \* history: number of storage calls begun so far
    overlapped,           \* history: two storage calls were under way at once
    completed,            \* history: the storage calls that returned, in order
    health                \* the runHealthCheck call under way, and how it went

storeVars ==
    <<workflows, schedules, alarms, calls, callsMade, overlapped, completed, health>>

\* the orchestrator and what it keeps in the browser
bgVars == <<orchVars, storeVars>>

vars == <<captureVars, execVars, playVars, selVars, orchVars, storeVars>>

\* whether element e of Page is connected to the document (through shadow trees)
RECURSIVE Connected(_, _, _, _, _)
Connected(page, e, ins, sh, ind) ==
    /\ e \in Hosts => e \in ins
    /\ e = Indicator => ind
    /\ IF page[e].parent # 0 THEN Connected(page, page[e].parent, ins, sh, ind)
       ELSE IF page[e].tree = 0 THEN TRUE
       ELSE page[e].tree \in sh /\ Connected(page, page[e].tree, ins, sh, ind)

\* the DOM as it is now
DomOf(page, ins, sh, ind, hid) ==
    [e \in PageIds |->
        IF Connected(page, e, ins, sh, ind)
            THEN [page[e] EXCEPT !.hidden = (e \in hid)]
            ELSE [page[e] EXCEPT
                    !.hidden = (e \in hid),
                    !.tree = Detached,
                    !.parent = IF @ # 0 /\ ~Connected(page, @, ins, sh, ind) THEN @ ELSE 0]]

Dom == DomOf(Page, inserted, shadowed, indicator, hiddenEls)

\* the hosts whose shadow trees enclose e, outermost first
RECURSIVE HostChain(_, _)
HostChain(page, e) ==
    IF page[e].parent # 0 THEN HostChain(page, page[e].parent)
    ELSE IF page[e].tree = 0 THEN << >>
    ELSE Append(HostChain(page, page[e].tree), page[e].tree)

\* the targets an event dispatched on t passes in the capture phase; click and
\* input are composed events, change stops at the root of its own tree
EventPath(chain, type) ==
    IF type = "change" /\ chain # << >> THEN <<ShadowRootOf(chain[Len(chain)])>>
    ELSE <<Window, Document>> \o [k \in 1..Len(chain) |-> ShadowRootOf(chain[k])]

\* event.target as a listener registered on L sees it
Retarget(chain, L, t) ==
    IF L \in {Window, Document} THEN (IF chain = << >> THEN t ELSE chain[1])
    ELSE With(CHOOSE i \in 1..Len(chain) : ShadowRootOf(chain[i]) = L, LAMBDA k :
            IF k = Len(chain) THEN t ELSE chain[k + 1])

\* ------------------------------------------------------------------------
\* Capture engine (content.js)
\* ------------------------------------------------------------------------

\* target.closest('#wave-recording-indicator')
RECURSIVE ClosestIndicator(_, _)
ClosestIndicator(dom, e) ==
    IF e = 0 THEN FALSE
    ELSE dom[e].id = IndicatorId \/ ClosestIndicator(dom, dom[e].parent)

IsClickable(dom, e) ==
    \/ dom[e].tagName \in {"A", "BUTTON", "INPUT", "SELECT", "TEXTAREA"}
    \/ dom[e].attrs["role"] \in {<<"b", "u", "t", "t", "o", "n">>, <<"l", "i", "n", "k">>}
    \/ dom[e].attrs["onclick"] # EmptyStr

MaxClickableDepth == 5

RECURSIVE ClickableParent(_, _, _, _)
ClickableParent(dom, element, parent, depth) ==
    IF parent = 0 \/ depth >= MaxClickableDepth THEN element
    ELSE IF IsClickable(dom, parent) THEN parent
    ELSE IF /\ dom[parent].cursor = "pointer"
            /\ dom[parent].tagName \in {"DIV", "SPAN", "LI"}
            /\ \/ dom[parent].id # EmptyStr
               \/ dom[parent].className # << >>
               \/ dom[parent].attrs["data-testid"] # EmptyStr
        THEN parent
    ELSE ClickableParent(dom, element, dom[parent].parent, depth + 1)

getClickableElement(dom, element) ==
    IF IsClickable(dom, element) THEN element
    ELSE ClickableParent(dom, element, dom[element].parent, 0)

isInputElement(dom, el) == dom[el].tagName \in {"INPUT", "TEXTAREA"} \/ dom[el].editable

Undefined == <<"undefined">>

\* element.value
ValueOf(vals, el) == IF el \in ValueElems THEN vals[el] ELSE Undefined

\* a RECORD_STEP message; target, ev, at and rec are history, not payload
Step(type, selector, val, dom, target, ev) ==
    [type |-> type, selector |-> selector, value |-> val,
     tagName |-> ToLowerCase(dom[target].tagName),
     target |-> target, ev |-> ev, at |-> now, rec |-> isRecording]

\* the engine state the event handlers change
Engine == [timers |-> timers, waveInputTimeout |-> waveInputTimeout,
           nextTimerId |-> nextTimerId, sent |-> sent]

\* the handlers leave the engine in state es
EngineBecomes(es) ==
    /\ timers' = es.timers
    /\ waveInputTimeout' = es.waveInputTimeout
    /\ nextTimerId' = es.nextTimerId
    /\ sent' = es.sent

sendStep(es, step) == [es EXCEPT !.sent = Append(@, step)]

\* generateSelector, then sendStep unless there is no selector
recordStep(es, dom, type, target, val, ev) ==
    With(generateSelector(dom, target), LAMBDA selector :
        IF selector = EmptyStr THEN es
        ELSE sendStep(es, Step(type, selector, val, dom, target, ev)))

handleClick(es, dom, eventTarget, ev) ==
    IF ~isRecording THEN es
    ELSE IF ClosestIndicator(dom, eventTarget) THEN es
    ELSE recordStep(es, dom, "click", getClickableElement(dom, eventTarget), Null, ev)

\* handleInput without the clearTimeout of the element's pending timer
handleInputNoClear(es, dom, target, ev) ==
    IF ~isRecording THEN es
    ELSE IF ~isInputElement(dom, target) THEN es
    ELSE [es EXCEPT
            !.timers = @ \cup {[id |-> es.nextTimerId, target |-> target,
                                deadline |-> now + DebounceMs, ev |-> ev]},
            !.waveInputTimeout[target] = es.nextTimerId,
            !.nextTimerId = @ + 1]

\* clearTimeout(target._waveInputTimeout); target._waveInputTimeout = setTimeout(..., 500)
handleInput(es, dom, target, ev) ==
    IF ~isRecording THEN es
    ELSE IF ~isInputElement(dom, target) THEN es
    ELSE [es EXCEPT
            !.timers = {t \in @ : t.id # es.waveInputTimeout[target]}
                          \cup {[id |-> es.nextTimerId, target |-> target,
                                 deadline |-> now + DebounceMs, ev |-> ev]},
            !.waveInputTimeout[target] = es.nextTimerId,
            !.nextTimerId = @ + 1]

handleChange(es, dom, vals, target, ev) ==
    IF ~isRecording THEN es
    ELSE IF dom[target].tagName # "SELECT" THEN es
    ELSE recordStep(es, dom, "input", target, ValueOf(vals, target), ev)

\* the listeners on the event's path run in order, each seeing its own target
RECURSIVE RunListeners(_, _, _, _, _, _, _, _)
RunListeners(path, chain, es, dom, vals, type, t, ev) ==
    IF path = << >> THEN es
    ELSE RunListeners(Tail(path), chain,
            IF <<Head(path), type>> \notin listeners THEN es
            ELSE With(Retarget(chain, Head(path), t), LAMBDA seen :
                    IF type = "click" THEN handleClick(es, dom, seen, ev)
                    ELSE IF type = "input" THEN handleInput(es, dom, seen, ev)
                    ELSE handleChange(es, dom, vals, seen, ev)),
            dom, vals, type, t, ev)

\* node.querySelectorAll('*') plus node itself: the elements at or under node
\* in node's own tree that are present in it
PresentInParent(e) == (e \in Hosts => e \in inserted) /\ (e = Indicator => indicator)

RECURSIVE IsUnder(_, _, _)
IsUnder(page, e, node) ==
    /\ PresentInParent(e)
    /\ page[e].parent # 0
    /\ (page[e].parent = node \/ IsUnder(page, page[e].parent, node))

SubtreeOf(page, node) == {node} \cup {e \in PageIds : IsUnder(page, e, node)}

RECURSIVE PresentInTree(_, _)
PresentInTree(page, e) ==
    PresentInParent(e) /\ (page[e].parent # 0 => PresentInTree(page, page[e].parent))

\* shadowRoot.querySelectorAll('*') of host h
ShadowTreeOf(page, h) == {e \in PageIds : page[e].tree = h /\ PresentInTree(page, e)}

\* the same scan without the attachedShadowRoots.has test
RECURSIVE NewShadowRootsUnchecked(_, _, _)
NewShadowRootsUnchecked(page, elems, attached) ==
    With({h \in elems \cap Hosts : h \in shadowed}, LAMBDA new :
        IF new = {} THEN {}
        ELSE new \cup NewShadowRootsUnchecked(page,
                                              UNION {ShadowTreeOf(page, h) : h \in new},
                                              attached \cup new))

\* the shadow roots attachToShadowRoots registers when it scans elems: those not
\* yet in attachedShadowRoots, and, recursively, those inside each of them
RECURSIVE NewShadowRoots(_, _, _)
NewShadowRoots(page, elems, attached) ==
    With({h \in elems \cap Hosts : h \in shadowed /\ h \notin attached}, LAMBDA new :
        IF new = {} THEN {}
        ELSE new \cup NewShadowRoots(page, UNION {ShadowTreeOf(page, h) : h \in new},
                                     attached \cup new))

attachToShadowRoots(page, root, attached) ==
    NewShadowRoots(page, SubtreeOf(page, root), attached)

\* the roots a scan of elems finds in attachedShadowRoots already: it neither
\* registers on them nor looks inside them
RECURSIVE KnownShadowRoots(_, _, _)
KnownShadowRoots(page, elems, attached) ==
    With({h \in elems \cap Hosts : h \in shadowed}, LAMBDA found :
        IF found \ attached = {} THEN found
        ELSE (found \cap attached)
             \cup KnownShadowRoots(page,
                                   UNION {ShadowTreeOf(page, h) : h \in found \ attached},
                                   attached \cup found))

ListenersOn(targets) == {<<t, ty>> : t \in targets, ty \in EventTypes}


lifecycleVars ==
    <<isRecording, shadowObserver, attachedShadowRoots, observing, mutationQueue,
      listeners, indicator, registrations, rescanned>>

\* one more registration for each root of found
Registered(regs, found) == [h \in Hosts |-> regs[h] + (IF h \in found THEN 1 ELSE 0)]

\* a session starts with the scan of document.body
SessionStarts(found) ==
    /\ registrations' = Registered([h \in Hosts |-> 0], found)
    /\ rescanned' = {}

\* startRecording without its guard on isRecording
startRecordingUnguarded ==
    /\ isRecording' = TRUE
    /\ With(attachToShadowRoots(Page, Body, attachedShadowRoots), LAMBDA found :
            /\ attachedShadowRoots' = attachedShadowRoots \cup found
            /\ listeners' = listeners \cup ListenersOn({Window, Document})
                   \cup ListenersOn({ShadowRootOf(h) : h \in found})
            /\ SessionStarts(found))
    /\ shadowObserver' = TRUE
    /\ observing' = observing + 1
    /\ indicator' = TRUE
    /\ mutationQueue' = IF indicator THEN mutationQueue
                        ELSE Append(mutationQueue, Indicator)

\* stopRecording that leaves the observer connected
stopRecordingKeepsObserver ==
    IF ~isRecording THEN UNCHANGED lifecycleVars
    ELSE /\ isRecording' = FALSE
         /\ listeners' = listeners \ ListenersOn({Window, Document})
         /\ indicator' = FALSE
         /\ UNCHANGED <<attachedShadowRoots, shadowObserver, observing, mutationQueue,
                        registrations, rescanned>>

startRecording ==
    IF isRecording THEN UNCHANGED lifecycleVars
    ELSE /\ isRecording' = TRUE
         /\ With(attachToShadowRoots(Page, Body, attachedShadowRoots), LAMBDA found :
                /\ attachedShadowRoots' = attachedShadowRoots \cup found
                /\ listeners' = listeners \cup ListenersOn({Window, Document})
                       \cup ListenersOn({ShadowRootOf(h) : h \in found})
                /\ SessionStarts(found))
         /\ shadowObserver' = TRUE
         /\ observing' = observing + 1
         /\ indicator' = TRUE
         /\ mutationQueue' = IF indicator THEN mutationQueue
                             ELSE Append(mutationQueue, Indicator)

stopRecording ==
    IF ~isRecording THEN UNCHANGED lifecycleVars
    ELSE /\ isRecording' = FALSE
         /\ listeners' = listeners \ ListenersOn({Window, Document})
         /\ observing' = IF shadowObserver THEN observing - 1 ELSE observing
         /\ mutationQueue' = IF shadowObserver THEN << >> ELSE mutationQueue
         /\ shadowObserver' = FALSE
         /\ indicator' = FALSE
         /\ UNCHANGED <<attachedShadowRoots, registrations, rescanned>>

pageVars == <<inserted, shadowed, value>>
msgVars == <<prevMsg, lastMsg>>
\* what the capture engine never touches
playbackVars == <<hiddenEls, execVars, playVars, selVars, bgVars>>
handlerVars == <<timers, waveInputTimeout, nextTimerId, sent>>

\* chrome.runtime.onMessage: RECORDING_STARTED
OnRecordingStarted ==
    /\ startRecording
    /\ lastMsg' = "RECORDING_STARTED"
    /\ prevMsg' = lastMsg
    /\ UNCHANGED <<now, pageVars, playbackVars, handlerVars, events>>

\* chrome.runtime.onMessage: RECORDING_STOPPED
OnRecordingStopped ==
    /\ stopRecording
    /\ lastMsg' = "RECORDING_STOPPED"
    /\ prevMsg' = lastMsg
    /\ UNCHANGED <<now, pageVars, playbackVars, handlerVars, events>>

\* the MutationObserver callback: attachToShadowRoots for every added node
RECURSIVE ScanAdded(_, _, _)
ScanAdded(page, nodes, attached) ==
    IF nodes = << >> THEN attached
    ELSE ScanAdded(page, Tail(nodes),
                   attached \cup attachToShadowRoots(page, Head(nodes), attached))

\* the history of the same callback: registrations, and roots found known
RECURSIVE ScanHistory(_, _, _, _)
ScanHistory(page, nodes, attached, hist) ==
    IF nodes = << >> THEN hist
    ELSE With(attachToShadowRoots(page, Head(nodes), attached), LAMBDA found :
            ScanHistory(page, Tail(nodes), attached \cup found,
                        [registrations |-> Registered(hist.registrations, found),
                         rescanned |-> hist.rescanned
                            \cup KnownShadowRoots(page, SubtreeOf(page, Head(nodes)),
                                                  attached)]))

ObserverCallback ==
    /\ mutationQueue # << >>
    /\ attachedShadowRoots' = ScanAdded(Page, mutationQueue, attachedShadowRoots)
    /\ With(ScanHistory(Page, mutationQueue, attachedShadowRoots,
                        [registrations |-> registrations, rescanned |-> rescanned]),
            LAMBDA hist :
                /\ registrations' = hist.registrations
                /\ rescanned' = hist.rescanned
                /\ listeners' = listeners
                      \cup ListenersOn({ShadowRootOf(h) : h \in
                            {r \in Hosts : hist.registrations[r] > registrations[r]}}))
    /\ mutationQueue' = << >>
    /\ UNCHANGED <<now, pageVars, playbackVars, handlerVars, events, msgVars, isRecording,
                   shadowObserver, observing, indicator>>

MaxQueue == 2

\* the hosts whose parent is in the document tree
DocumentHosts == {Host1}

\* the page inserts a custom element; the observer on document.body sees
\* insertions in the document tree only
InsertHost(h) ==
    /\ h \in Hosts \ inserted
    /\ Len(mutationQueue) < MaxQueue
    /\ inserted' = inserted \cup {h}
    /\ mutationQueue' = IF observing > 0 /\ h \in DocumentHosts
                            THEN Append(mutationQueue, h) ELSE mutationQueue
    /\ UNCHANGED <<now, shadowed, playbackVars, value, handlerVars, events, msgVars,
                   isRecording, shadowObserver, attachedShadowRoots, observing,
                   listeners, indicator, registrations, rescanned>>

RemoveHost(h) ==
    /\ h \in inserted
    /\ inserted' = inserted \ {h}
    /\ UNCHANGED <<now, shadowed, playbackVars, value, handlerVars, events, msgVars,
                   lifecycleVars>>

\* element.attachShadow({mode: 'open'}): no childList mutation
AttachShadow(h) ==
    /\ h \in Hosts \ shadowed
    /\ shadowed' = shadowed \cup {h}
    /\ UNCHANGED <<now, inserted, playbackVars, value, handlerVars, events, msgVars,
                   lifecycleVars>>

\* ------------------------------------------------------------------------
\* Recording lifecycle properties
\* ------------------------------------------------------------------------

\* C4: startRecording is idempotent. A RECORDING_STARTED handled while the
\* engine is already recording changes no part of the engine's state: the
\* listener set, the observer, the attached shadow roots, the indicator and
\* the pending mutation records are what they were.
C4_StartIdempotent ==
    [][(isRecording /\ OnRecordingStarted) => UNCHANGED lifecycleVars]_vars

\* two starts in a row, the second one handled while recording
C4_Witness ==
    /\ prevMsg = "RECORDING_STARTED"
    /\ lastMsg = "RECORDING_STARTED"
    /\ isRecording
    /\ attachedShadowRoots # {}

\* C5: after stopRecording no capture listener remains attached anywhere
\* (window, document, shadow roots), the observer is disconnected and the
\* indicator is absent.
C5_StopDetachesAll ==
    ~isRecording => listeners = {} /\ observing = 0 /\ ~indicator

\* C6: the engine is recording iff the last RECORDING_* message was
\* RECORDING_STARTED, and the window/document capture listeners and the
\* mutation observer are installed iff it is recording.
C6_StateMachine ==
    /\ isRecording \in BOOLEAN
    /\ isRecording <=> lastMsg = "RECORDING_STARTED"
    /\ isRecording => ListenersOn({Window, Document}) \subseteq listeners
    /\ ~isRecording => ListenersOn({Window, Document}) \cap listeners = {}
    /\ observing = (IF isRecording THEN 1 ELSE 0)
    /\ shadowObserver <=> isRecording

\* a session that was started and then stopped
C6_Witness ==
    /\ prevMsg = "RECORDING_STARTED"
    /\ lastMsg = "RECORDING_STOPPED"
    /\ ~isRecording
    /\ ListenersOn({Window, Document}) \cap listeners = {}

\* ------------------------------------------------------------------------
\* User events, timers, time
\* ------------------------------------------------------------------------

MaxEvents == 3
MaxClock == 1000
TickMs == DebounceMs \div 2

TypedValues == {<<"a">>, <<"a", "b">>}
SelectValues == {<<"o">>}

ClickTargets == {IconB, PlayButton, IndicatorLabel, SubmitButton}
TimedClickTargets == {IconB}
InputTargets == {InputA}
ChangeTargets == {SelectS}

Event(type, t, vals) ==
    [type |-> type, target |-> t, at |-> now, value |-> ValueOf(vals, t),
     rec |-> isRecording]

Dispatch(type, t, vals) ==
    /\ Len(events) < MaxEvents
    /\ Connected(Page, t, inserted, shadowed, indicator)
    /\ events' = Append(events, Event(type, t, vals))
    /\ EngineBecomes(RunListeners(EventPath(HostChain(Page, t), type),
                                  HostChain(Page, t), Engine, Dom, vals,
                                  type, t, Len(events) + 1))
    /\ UNCHANGED <<now, inserted, shadowed, playbackVars, msgVars, lifecycleVars>>

UserClick(t) ==
    /\ t \in ClickTargets
    /\ Dispatch("click", t, value)
    /\ UNCHANGED value

\* a keystroke: the element's value changes, then the input event fires
UserInput(t, v) ==
    /\ t \in InputTargets
    /\ v \in TypedValues
    /\ t \in ValueElems => v # value[t]
    /\ value' = IF t \in ValueElems THEN [value EXCEPT ![t] = v] ELSE value
    /\ Dispatch("input", t, value')

UserChange(t, v) ==
    /\ t \in ChangeTargets
    /\ v \in SelectValues
    /\ value' = IF t = SelectS THEN [value EXCEPT ![t] = v] ELSE value
    /\ Dispatch("change", t, value')

\* the debounce callback of handleInput
TimerFire(tm) ==
    /\ tm \in timers
    /\ tm.deadline <= now
    /\ timers' = timers \ {tm}
    /\ sent' = recordStep(Engine, Dom, "input", tm.target, ValueOf(value, tm.target),
                          tm.ev).sent
    /\ UNCHANGED <<now, pageVars, playbackVars, waveInputTimeout, nextTimerId, events,
                   msgVars, lifecycleVars>>

Min(a, b) == IF a <= b THEN a ELSE b

RECURSIVE MinOf(_, _)
MinOf(S, least) ==
    IF S = {} THEN least
    ELSE LET x == CHOOSE y \in S : TRUE IN MinOf(S \ {x}, Min(x, least))

CaptureDeadlines == {tm.deadline : tm \in timers}

\* time passes, never beyond a pending deadline
TickCapture ==
    /\ now < MaxClock
    /\ \A d \in CaptureDeadlines : d > now
    /\ now' = MinOf(CaptureDeadlines, Min(now + TickMs, MaxClock))
    /\ UNCHANGED <<pageVars, playbackVars, handlerVars, events, msgVars, lifecycleVars>>

\* ------------------------------------------------------------------------
\* Capture properties
\* ------------------------------------------------------------------------

\* C1: RecordStep notifications are emitted in the order of the events they
\* come from: a Step sent later never comes from an earlier event than a Step
\* sent before it.
C1_CaptureOrdering ==
    \A i, j \in 1..Len(sent) : i < j => sent[i].ev <= sent[j].ev

IsInputOn(k, e) == events[k].type = "input" /\ events[k].target = e

\* the next input event on the element of event k, or 0
NextSame(k) ==
    LET later == {j \in (k + 1)..Len(events) : IsInputOn(j, events[k].target)}
    IN IF later = {} THEN 0 ELSE CHOOSE j \in later : \A l \in later : j <= l

StepsOf(k) == {i \in 1..Len(sent) : sent[i].ev = k}

\* C7: input events on one element received while recording, each less than
\* 500ms after the one before, produce one input Step: none for an event that
\* is followed within the burst, and for the last event of the burst (no
\* further input on the element, or the next one more than 500ms later) exactly
\* one Step, sent 500ms after that event and carrying the value the element
\* had at that keystroke.
C7_DebounceCollapsing ==
    \A k \in 1..Len(events) :
        (events[k].rec /\ IsInputOn(k, events[k].target)) =>
            LET n == NextSame(k)
                due == events[k].at + DebounceMs
            IN /\ (n # 0 /\ events[n].rec /\ events[n].at < due) => StepsOf(k) = {}
               /\ (n = 0 \/ events[n].at > due) =>
                     /\ Cardinality(StepsOf(k)) <= 1
                     /\ now > due => StepsOf(k) # {}
                     /\ \A i \in StepsOf(k) :
                            /\ sent[i].type = "input"
                            /\ sent[i].target = events[k].target
                            /\ sent[i].at = due
                            /\ sent[i].value = events[k].value

\* two keystrokes less than 500ms apart whose one Step has been sent
C7_Witness ==
    \E i \in 1..Len(sent) :
        LET k == sent[i].ev
        IN /\ sent[i].type = "input"
           /\ k >= 2
           /\ IsInputOn(k, InputA) /\ IsInputOn(k - 1, InputA)
           /\ events[k].rec /\ events[k - 1].rec
           /\ events[k].at - events[k - 1].at < DebounceMs
           /\ events[k].value # events[k - 1].value
           /\ sent[i].value = events[k].value
           /\ StepsOf(k - 1) = {}

\* C8: a RecordStep is sent only while the engine is recording.
C8_NoStepAfterStop ==
    \A i \in 1..Len(sent) : sent[i].rec

\* ------------------------------------------------------------------------
\* Replay engine (content.js executeStep, waitForElement)
\* ------------------------------------------------------------------------

WaitTimeout == 10000
PollInterval == 100
ScrollDelay == 200
NoTime == 0 - 1

\* the error that reports a locator by its first alternative only
NotFoundErrorFirstAlternative(selector) ==
    <<"Element not found: ">> \o Head(Alternatives(selector))

\* `Element not found: ${step.selector}`
NotFoundError(selector) == <<"Element not found: ">> \o selector

\* `Unknown step type: ${step.type}`
UnknownTypeError(type) == <<"Unknown step type: ", type>>

Failure(error) == [success |-> FALSE, error |-> error]
Success == [success |-> TRUE, error |-> EmptyStr]

\* a wait that gives up one poll interval early
waitExpiredEarly(elapsed) == ~(elapsed < WaitTimeout - PollInterval)

\* the negation of waitForElement's loop condition Date.now() - start < timeout
waitExpired(elapsed) == ~(elapsed < WaitTimeout)

Effect(op, el, arg) == [op |-> op, el |-> el, arg |-> arg, at |-> now]

\* the argument of an effect whose call threw
Thrown == <<"threw">>

\* the elements of the page whose scrollIntoView throws (the page replaced the
\* method), and those without a click method (SVG elements)
ThrowsOnScroll == {SubmitButton}
NoClickMethod == {SvgIcon}

\* 'Illegal invocation': the value setter of HTMLInputElement.prototype called
\* on an element that is no <input>
IllegalInvocationError == <<"Illegal invocation">>

\* executeStep from the top of waitForElement's loop to its next sleep, or to
\* its end when the wait is over or the step's type is unknown
WaitIteration(step, start) ==
    /\ execStep' = step
    /\ execStart' = start
    /\ IF waitExpired(now - start)
       THEN /\ execPc' = "done"
            /\ responses' = Append(responses, Failure(NotFoundError(step.selector)))
            /\ doneAt' = now
            /\ UNCHANGED <<wakeAt, execElement, effects, polls, changedAt>>
       ELSE /\ polls' = polls + 1
            /\ changedAt' = NoTime
            /\ execElement' = PollOnce(Dom, step.selector)
            /\ IF execElement' = 0
               THEN /\ execPc' = "polling"
                    /\ wakeAt' = now + PollInterval
                    /\ UNCHANGED <<effects, responses, doneAt>>
               ELSE IF step.type \in {"click", "input"}
               THEN /\ execPc' = "settling"
                    /\ wakeAt' = now + ScrollDelay
                    /\ effects' =
                           Append(effects,
                                  Effect("scrollIntoView", execElement',
                                         IF execElement' \in ThrowsOnScroll THEN Thrown
                                                                            ELSE Null))
                    /\ UNCHANGED <<responses, doneAt>>
               ELSE /\ execPc' = "done"
                    /\ responses' = Append(responses, Failure(UnknownTypeError(step.type)))
                    /\ doneAt' = now
                    /\ UNCHANGED <<wakeAt, effects>>

\* the native setter is the one of HTMLInputElement.prototype whenever that
\* exists: it throws a TypeError on any other element
SetterThrows(dom, step, el) ==
    /\ step.type = "input"
    /\ dom[el].tagName # "SELECT"
    /\ ~dom[el].editable
    /\ dom[el].tagName # "INPUT"

\* the click case without the fallback to a synthetic event
ActionsNativeClickOnly(dom, step, el) ==
    <<Effect("highlight", el, Null)>> \o
    (IF step.type = "click"
        THEN <<Effect("click", el, IF el \in NoClickMethod THEN Thrown ELSE Null)>>
     ELSE <<Effect("focus", el, Null)>>)

\* what the click and input cases do after their sleep(200)
Actions(dom, step, el) ==
    <<Effect("highlight", el, Null)>> \o
    (IF step.type = "click"
        THEN IF el \in NoClickMethod
             THEN <<Effect("click", el, Thrown), Effect("dispatch", el, "click")>>
             ELSE <<Effect("click", el, Null)>>
     ELSE <<Effect("focus", el, Null)>> \o
          (IF dom[el].tagName = "SELECT"
              THEN <<Effect("value", el, step.value), Effect("dispatch", el, "change")>>
           ELSE IF dom[el].editable
              THEN <<Effect("textContent", el, step.value),
                     Effect("dispatch", el, "input")>>
           ELSE IF SetterThrows(dom, step, el)
              THEN <<Effect("value", el, Thrown)>>
           ELSE <<Effect("value", el, step.value), Effect("dispatch", el, "input"),
                  Effect("dispatch", el, "change"), Effect("dispatch", el, "keyup")>>))

\* what the EXECUTE_STEP handler answers once executeStep has settled
StepAnswer(dom, step, el) ==
    IF SetterThrows(dom, step, el) THEN Failure(IllegalInvocationError) ELSE Success

engineVars ==
    <<inserted, shadowed, isRecording, shadowObserver, attachedShadowRoots, observing,
      mutationQueue, listeners, indicator, timers, waveInputTimeout, nextTimerId, sent,
      events, prevMsg, lastMsg, registrations, rescanned, playVars, selVars, bgVars>>

\* chrome.runtime.onMessage: EXECUTE_STEP, up to executeStep's first await
OnExecuteStep(step) ==
    /\ execPc = "idle"
    /\ WaitIteration(step, now)
    /\ UNCHANGED <<now, hiddenEls, value, domChanges, engineVars>>

\* waitForElement's sleep(100) resolves
WaitForElementWakes ==
    /\ execPc = "polling"
    /\ now = wakeAt
    /\ WaitIteration(execStep, execStart)
    /\ UNCHANGED <<now, hiddenEls, value, domChanges, engineVars>>

\* the step acts, but the handler never answers
StepActsSilently ==
    /\ execPc = "settling"
    /\ now = wakeAt
    /\ effects' = effects \o Actions(Dom, execStep, execElement)
    /\ value' = IF execStep.type = "input" /\ execElement \in ValueElems
                   THEN [value EXCEPT ![execElement] = execStep.value] ELSE value
    /\ execPc' = "done"
    /\ doneAt' = now
    /\ UNCHANGED <<now, hiddenEls, domChanges, engineVars, execStep, execStart, wakeAt,
                   execElement, polls, changedAt, responses>>

\* executeStep's sleep(200) resolves: the step acts on the element and the
\* handler answers
StepActs ==
    /\ execPc = "settling"
    /\ now = wakeAt
    /\ effects' = effects \o Actions(Dom, execStep, execElement)
    /\ value' = IF execStep.type = "input" /\ execElement \in ValueElems
                   THEN [value EXCEPT ![execElement] = execStep.value] ELSE value
    /\ responses' = Append(responses, StepAnswer(Dom, execStep, execElement))
    /\ execPc' = "done"
    /\ doneAt' = now
    /\ UNCHANGED <<now, hiddenEls, domChanges, engineVars, execStep, execStart, wakeAt,
                   execElement, polls, changedAt>>

MaxDomChanges == 1
ExecTickMs == PollInterval \div 2
ToggledEls == {ButtonB}

\* the page shows or hides one of its elements while a step is in progress
SetHidden(hid) ==
    /\ execPc \in {"polling", "settling"}
    /\ domChanges < MaxDomChanges
    /\ domChanges' = domChanges + 1
    /\ hiddenEls' = hid
    /\ changedAt' = now
    /\ UNCHANGED <<now, value, engineVars, execPc, execStep, execStart, wakeAt,
                   execElement, effects, responses, polls, doneAt>>

ShowElement(e) == e \in hiddenEls /\ SetHidden(hiddenEls \ {e})

HideElement(e) == e \notin hiddenEls /\ SetHidden(hiddenEls \cup {e})

\* time passes, never beyond the pending sleep
TickExec ==
    /\ execPc \in {"polling", "settling"}
    /\ now < wakeAt
    /\ now' = Min(now + ExecTickMs, wakeAt)
    /\ UNCHANGED <<hiddenEls, value, engineVars, execVars>>

GoSelector == AttrSelector(EmptyStr, "data-testid", "=", <<"g", "o">>)
NopeSelector == <<"#", "n", "o", "p", "e">>

ExecSteps ==
    {[type |-> "click", selector |-> GoSelector, value |-> Null],
     [type |-> "click", selector |-> NopeSelector \o <<",", SP>> \o GoSelector,
      value |-> Null],
     [type |-> "input", selector |-> AttrSelector(<<"input">>, "name", "=", <<"q">>),
      value |-> <<"a">>],
     [type |-> "input", selector |-> <<"#", "s", "e", "l">>, value |-> <<"o">>],
     [type |-> "input", selector |-> <<".", "e", "d">>, value |-> <<"a">>],
     [type |-> "input", selector |-> <<"#", "t", "a">>, value |-> <<"a">>],
     [type |-> "click",
      selector |-> AttrSelector(EmptyStr, "data-testid", "=", <<"s", "u", "b", "m", "i", "t">>),
      value |-> Null],
     [type |-> "click", selector |-> AttrSelector(EmptyStr, "data-testid", "=", <<"i", "c">>),
      value |-> Null],
     [type |-> "click", selector |-> <<"button">>, value |-> Null],
     [type |-> "hover", selector |-> GoSelector, value |-> Null]}

ExecIdle ==
    /\ execPc = "idle"
    /\ execStep = [type |-> "none", selector |-> EmptyStr, value |-> Null]
    /\ execStart = 0
    /\ wakeAt = 0
    /\ execElement = 0
    /\ effects = << >>
    /\ responses = << >>
    /\ domChanges = 0
    /\ polls = 0
    /\ changedAt = NoTime
    /\ doneAt = NoTime

\* ------------------------------------------------------------------------
\* Replay orchestration (background.js handlePlayWorkflow, executeStep)
\* ------------------------------------------------------------------------

SlowStepDelay == 1500
FastStepDelay == 300
StepTimeoutMs == 15000
RetrySleepMs == 200
InjectDelayMs == 150
DefaultWaitMs == 1000
MaxWaitMs == 30000
TabLoadDelayMs == 500
TabLoadTimeoutMs == 30000
NaN == 0 - 1

NoReceiver == <<"Receiving end does not exist">>
NoReceiverError == <<"Could not establish connection. ">> \o NoReceiver \o <<".">>
PortClosedError == <<"The message port closed before a response was received.">>
NoTabError == <<"No tab with id">>
CannotAccessError == <<"Cannot access this page. Please navigate to a regular website.">>
TimedOutError == <<"Step timed out after 15s">>
ExecutionFailedError == <<"Step execution failed">>
RetryFailedError == <<"Step execution failed after retry">>
WorkflowNotFoundError == <<"Workflow not found">>
NoStepsError == <<"Workflow has no steps to play">>
RestrictedPageError ==
    <<"Cannot play on this page. The workflow should start with a navigate step, ",
      "or navigate to a regular website first.">>

\* `Invalid URL: ${step.value}`
InvalidUrlError(url) == <<"Invalid URL: ">> \o url

\* isValidUrl: the URL parses and its protocol is http: or https:
isValidUrl(url) == url # EmptyStr /\ Head(url) \in {"http:", "https:"}

RestrictedPrefixes ==
    {"chrome://", "chrome-extension://", "about:", "edge://", "brave://", "opera://",
     "vivaldi://", "firefox:", "moz-extension://", "devtools://", "view-source:",
     "data:", "javascript:"}

isRestrictedUrl(url) == url = EmptyStr \/ Head(url) \in RestrictedPrefixes

\* parseInt: the value of the leading decimal digits, NaN without any
RECURSIVE LeadingDigits(_)
LeadingDigits(s) ==
    IF s = EmptyStr \/ Head(s) \notin Digits THEN EmptyStr
    ELSE <<Head(s)>> \o LeadingDigits(Tail(s))

ParseInt(s) == IF LeadingDigits(s) = EmptyStr THEN NaN ELSE DecimalVal(LeadingDigits(s))

\* Math.min(parseInt(step.value) || 1000, 30000)
WaitTime(v) ==
    With(ParseInt(v), LAMBDA n :
        Min(IF n = NaN \/ n = 0 THEN DefaultWaitMs ELSE n, MaxWaitMs))

\* the failure that names the step by its 0-based index in the message too
StepFailureZeroBased(i, message) ==
    [success |-> FALSE,
     error |-> <<"Step ">> \o DecimalStr(i) \o <<" failed: ">> \o message,
     stepIndex |-> i]

\* { success: false, error: `Step ${i + 1} failed: ${err.message}`, stepIndex: i }
StepFailure(i, message) ==
    [success |-> FALSE,
     error |-> <<"Step ">> \o DecimalStr(i + 1) \o <<" failed: ">> \o message,
     stepIndex |-> i]

\* the onMessage handler's answer to a rejected handlePlayWorkflow
Rejected(message) == [success |-> FALSE, error |-> message]

PlaySucceeded == [success |-> TRUE]

LogEntry(op, i, t) == [op |-> op, index |-> i, at |-> t]

stepDelay(workflow) == IF workflow.slowMode THEN SlowStepDelay ELSE FastStepDelay

\* executeStep has resolved at time t: handlePlayWorkflow sleeps stepDelay
StepCompletes(t) ==
    /\ playLog' = Append(playLog, LogEntry("complete", playIdx, t))
    /\ playPc' = "delay"
    /\ playWake' = t + stepDelay(playWorkflow)
    /\ UNCHANGED <<playIdx, playResult>>

\* executeStep has rejected at time t: handlePlayWorkflow's catch returns
StepFails(message, t) ==
    /\ playLog' = Append(playLog, LogEntry("fail", playIdx, t))
    /\ playPc' = "returned"
    /\ playResult' = StepFailure(playIdx, message)
    /\ UNCHANGED <<playIdx, playWake>>

\* the top of handlePlayWorkflow's loop with index i at time t, up to the first
\* await of executeStep
IssueStep(i, t) ==
    /\ playIdx' = i
    /\ IF ~(i < Len(playWorkflow.steps))
       THEN /\ playPc' = "returned"
            /\ playResult' = PlaySucceeded
            /\ UNCHANGED <<playLog, playWake>>
       ELSE IF playWorkflow.steps[i + 1].type = "navigate"
       THEN IF ~isValidUrl(playWorkflow.steps[i + 1].value)
            THEN /\ playLog' = playLog \o <<LogEntry("issue", i, t), LogEntry("fail", i, t)>>
                 /\ playPc' = "returned"
                 /\ playResult' =
                        StepFailure(i, InvalidUrlError(playWorkflow.steps[i + 1].value))
                 /\ UNCHANGED playWake
            ELSE /\ playLog' = Append(playLog, LogEntry("issue", i, t))
                 /\ playPc' = "navigating"
                 /\ UNCHANGED <<playWake, playResult>>
       ELSE IF playWorkflow.steps[i + 1].type \in {"click", "input"}
       THEN /\ playLog' = Append(playLog, LogEntry("issue", i, t))
            /\ playPc' = "ensuring"
            /\ UNCHANGED <<playWake, playResult>>
       ELSE IF playWorkflow.steps[i + 1].type = "wait"
       THEN /\ playLog' = Append(playLog, LogEntry("issue", i, t))
            /\ playPc' = "waiting"
            /\ playWake' = t + WaitTime(playWorkflow.steps[i + 1].value)
            /\ UNCHANGED playResult
       ELSE /\ playLog' = playLog \o <<LogEntry("issue", i, t), LogEntry("complete", i, t)>>
            /\ playPc' = "delay"
            /\ playWake' = t + stepDelay(playWorkflow)
            /\ UNCHANGED playResult

\* the page and its content script
contentSide ==
    <<inserted, shadowed, hiddenEls, value, isRecording, shadowObserver,
      attachedShadowRoots, observing, mutationQueue, listeners, indicator, timers,
      waveInputTimeout, nextTimerId, sent, events, prevMsg, lastMsg, registrations,
      rescanned, execVars, selVars>>

\* everything but the clock and the replay in progress
pageSide == <<contentSide, bgVars>>

\* chrome.runtime.onMessage: PLAY_WORKFLOW, up to the first step's first await
OnPlayWorkflow(found) ==
    /\ playPc = "idle"
    /\ IF ~found THEN
            /\ playPc' = "returned"
            /\ playResult' = Rejected(WorkflowNotFoundError)
            /\ UNCHANGED <<playIdx, playWake, playLog>>
       ELSE IF playWorkflow.steps = << >> THEN
            /\ playPc' = "returned"
            /\ playResult' = Rejected(NoStepsError)
            /\ UNCHANGED <<playIdx, playWake, playLog>>
       ELSE IF isRestrictedUrl(tabUrl) /\ playWorkflow.steps[1].type # "navigate" THEN
            /\ playPc' = "returned"
            /\ playResult' = Rejected(RestrictedPageError)
            /\ UNCHANGED <<playIdx, playWake, playLog>>
       ELSE IssueStep(0, now)
    /\ UNCHANGED <<now, pageSide, playWorkflow, tabUrl, attemptLog>>

\* history: what happened to the EXECUTE_STEP of step i
Attempt(ev, i, kind) == [ev |-> ev, index |-> i, kind |-> kind]

NavigationOutcomes == {"complete", "timeout", "rejected"}

\* chrome.tabs.update and waitForTabLoad settle
NavigationEnds(outcome) ==
    /\ playPc = "navigating"
    /\ IF outcome = "rejected"
       THEN StepFails(NoTabError, now) /\ UNCHANGED now
       ELSE /\ now' = now + (IF outcome = "complete" THEN TabLoadDelayMs
                                                       ELSE TabLoadTimeoutMs)
            /\ playPc' = "ensuring"
            /\ UNCHANGED <<playIdx, playWake, playLog, playResult>>
    /\ UNCHANGED <<pageSide, playWorkflow, tabUrl, attemptLog>>

EnsureOutcomes == {"pong", "injected", "refused"}

\* how long ensureContentScript takes when it succeeds
EnsureDelay(outcome) == IF outcome = "injected" THEN InjectDelayMs ELSE 0

\* ensureContentScript settles: a navigate step is complete, a click or input
\* step is sent to the tab
EnsureEnds(outcome) ==
    /\ playPc = "ensuring"
    /\ IF outcome = "refused"
       THEN StepFails(CannotAccessError, now) /\ UNCHANGED <<now, attemptLog>>
       ELSE /\ now' = now + EnsureDelay(outcome)
            /\ IF playWorkflow.steps[playIdx + 1].type = "navigate"
               THEN StepCompletes(now') /\ UNCHANGED attemptLog
               ELSE /\ playLog' = Append(playLog, LogEntry("send", playIdx, now'))
                    /\ attemptLog' = Append(attemptLog, Attempt("send", playIdx, "sent"))
                    /\ playPc' = "awaiting"
                    /\ playWake' = now' + StepTimeoutMs
                    /\ UNCHANGED <<playIdx, playResult>>
    /\ UNCHANGED <<pageSide, playWorkflow, tabUrl>>

\* a locator that quotes the connection error
QuotingSelector == <<"button", ":text(", DQ>> \o NoReceiver \o <<DQ, ")">>

\* how chrome.tabs.sendMessage(tabId, EXECUTE_STEP) can settle for a step: with
\* the content script's response (success, the step's element not found, an
\* error without a message), with undefined, or rejected
Replies(step) ==
    {[kind |-> "response", response |-> r] :
        r \in {Success, Failure(NotFoundError(step.selector)), Failure(EmptyStr)}}
    \cup {[kind |-> "undefined"]}
    \cup {[kind |-> "reject", message |-> m] : m \in {NoReceiverError, PortClosedError}}

\* the replies to the EXECUTE_STEP that is outstanding
PendingReplies ==
    IF playPc \in {"awaiting", "retrying"} THEN Replies(playWorkflow.steps[playIdx + 1])
    ELSE {}

\* history: how a sendMessage settled: answered success or failure, undefined,
\* rejected for want of a receiver, rejected otherwise
SettleKind(reply) ==
    IF reply.kind = "reject"
    THEN IF Contains(reply.message, NoReceiver) THEN "no receiver" ELSE "rejected"
    ELSE IF reply.kind = "undefined" THEN "undefined"
    ELSE IF reply.response.success THEN "success"
    ELSE "failure"

\* what executeStep throws on a reply, Null if nothing: the rejection, or
\* response?.error || fallback unless response?.success
ThrownOn(reply, fallback) ==
    IF reply.kind = "reject" THEN reply.message
    ELSE IF reply.kind = "undefined" THEN fallback
    ELSE IF reply.response.success THEN Null
    ELSE IF reply.response.error = EmptyStr THEN fallback
    ELSE reply.response.error

\* the catch block of executeStep's first attempt
FirstAttemptThrew(message) ==
    IF Contains(message, NoReceiver)
    THEN /\ playPc' = "reensuring"
         /\ UNCHANGED <<playIdx, playWake, playLog, playResult>>
    ELSE StepFails(message, now)

FirstAttemptSettles(thrown) ==
    IF thrown = Null THEN StepCompletes(now) ELSE FirstAttemptThrew(thrown)

\* the first sendMessage wins the race against sleep(15000)
ResponseArrives(reply) ==
    /\ playPc = "awaiting"
    /\ FirstAttemptSettles(ThrownOn(reply, ExecutionFailedError))
    /\ attemptLog' = Append(attemptLog, Attempt("settle", playIdx, SettleKind(reply)))
    /\ UNCHANGED <<now, pageSide, playWorkflow, tabUrl>>

\* sleep(15000) wins the race
StepTimesOut ==
    /\ playPc = "awaiting"
    /\ now' = playWake
    /\ playLog' = Append(playLog, LogEntry("fail", playIdx, now'))
    /\ playPc' = "returned"
    /\ playResult' = StepFailure(playIdx, TimedOutError)
    /\ attemptLog' = Append(attemptLog, Attempt("settle", playIdx, "timeout"))
    /\ UNCHANGED <<playIdx, playWake, pageSide, playWorkflow, tabUrl>>

\* the catch block's ensureContentScript settles
ReEnsureEnds(outcome) ==
    /\ playPc = "reensuring"
    /\ IF outcome = "refused"
       THEN StepFails(CannotAccessError, now) /\ UNCHANGED now
       ELSE /\ now' = now + EnsureDelay(outcome)
            /\ playPc' = "retrySleep"
            /\ playWake' = now' + RetrySleepMs
            /\ UNCHANGED <<playIdx, playLog, playResult>>
    /\ attemptLog' = Append(attemptLog, Attempt("ensure", playIdx, outcome))
    /\ UNCHANGED <<pageSide, playWorkflow, tabUrl>>

\* the catch block's sleep(200) resolves: the step is sent again
RetrySleepEnds ==
    /\ playPc = "retrySleep"
    /\ now' = playWake
    /\ playLog' = Append(playLog, LogEntry("send", playIdx, now'))
    /\ playPc' = "retrying"
    /\ attemptLog' = Append(attemptLog, Attempt("send", playIdx, "sent"))
    /\ UNCHANGED <<playIdx, playWake, playResult, pageSide, playWorkflow, tabUrl>>

RetrySettles(thrown) ==
    IF thrown = Null THEN StepCompletes(now) ELSE StepFails(thrown, now)

\* the second sendMessage settles
RetryResponseArrives(reply) ==
    /\ playPc = "retrying"
    /\ RetrySettles(ThrownOn(reply, RetryFailedError))
    /\ attemptLog' = Append(attemptLog, Attempt("settle", playIdx, SettleKind(reply)))
    /\ UNCHANGED <<now, pageSide, playWorkflow, tabUrl>>

\* the sleep of a wait step resolves
WaitEnds ==
    /\ playPc = "waiting"
    /\ now' = playWake
    /\ StepCompletes(now')
    /\ UNCHANGED <<pageSide, playWorkflow, tabUrl, attemptLog>>

\* sleep(stepDelay) resolves: the loop goes on with the next index
StepDelayEnds ==
    /\ playPc = "delay"
    /\ now' = playWake
    /\ IssueStep(playIdx + 1, now')
    /\ UNCHANGED <<pageSide, playWorkflow, tabUrl, attemptLog>>

MaxSteps == 3
HomeUrl == <<"https:", "//", "a">>
ScriptUrl == <<"javascript:", "a">>
NewTabUrl == <<"chrome://", "newtab">>

StepTemplates ==
    {[type |-> "navigate", selector |-> Null, value |-> HomeUrl],
     [type |-> "navigate", selector |-> Null, value |-> ScriptUrl],
     [type |-> "click", selector |-> <<"#", "g", "o">>, value |-> Null],
     [type |-> "click", selector |-> QuotingSelector, value |-> Null],
     [type |-> "input", selector |-> <<"#", "q">>, value |-> <<"a">>],
     [type |-> "wait", selector |-> Null, value |-> <<"4", "0", "0", "0", "0">>],
     [type |-> "hover", selector |-> <<"#", "g", "o">>, value |-> Null]}

StepSeqs == UNION {[1..n -> StepTemplates] : n \in 0..MaxSteps}

PlayIdle ==
    /\ playPc = "idle"
    /\ playIdx = 0
    /\ playWake = 0
    /\ playLog = << >>
    /\ playResult = Null
    /\ playWorkflow = [steps |-> << >>, slowMode |-> FALSE]
    /\ tabUrl = HomeUrl
    /\ attemptLog = << >>

\* ------------------------------------------------------------------------
\* The orchestrator's recording state and concurrent replays (background.js
\* handleStartRecording, handleStopRecording, handleRecordStep,
\* handlePlayWorkflow, runHealthCheck)
\* ------------------------------------------------------------------------

MaxTabs == 2
MaxRuns == 2
MaxRunSteps == 2
MaxStarts == 2
MaxStops == 2
MaxRecordMsgs == 2
MaxOrchClock == 2
HealthStepDelay == 300
NoTab == 0

\* the tabs the user has open, and the replays the orchestrator is asked for
Tabs == 1..MaxTabs
RunIds == 1..MaxRuns

\* chrome.tabs.create: the tab a health check opens for itself
HealthTab(r) == MaxTabs + r

AllTabs == 1..(MaxTabs + MaxRuns)

NoWorkflow == [id |-> 0, steps |-> << >>]

NoRun ==
    [kind |-> "none", pc |-> "idle", idx |-> 0, len |-> 0, slowMode |-> FALSE,
     tab |-> NoTab, delay |-> 0, success |-> FALSE]

OrchIdle ==
    /\ bgIsRecording = FALSE
    /\ currentWorkflow = NoWorkflow
    /\ recordingTabId = NoTab
    /\ starting = << >>
    /\ stopping = << >>
    /\ tabRecording = [t \in AllTabs |-> FALSE]
    /\ recordMsgs = {}
    /\ runs = [r \in RunIds |-> NoRun]
    /\ created = 0
    /\ stepsSent = 0
    /\ sessionLog = << >>

RemoveAt(s, i) == SubSeq(s, 1, i - 1) \o SubSeq(s, i + 1, Len(s))

\* sendStep: a RECORD_STEP message from the content script of a tab
RecordStepMsg(tab, origin, seq) == [tab |-> tab, origin |-> origin, seq |-> seq]

\* PLAY_WORKFLOW for a stored workflow of n click steps while `tab` is the
\* active tab: handlePlayWorkflow up to ensureContentScript of its first step
PlayStarts(r, n, slow, tab) ==
    /\ runs[r].pc = "idle"
    /\ \A q \in 1..(r - 1) : runs[q].pc # "idle"
    /\ runs' = [runs EXCEPT ![r] =
                   [NoRun EXCEPT !.kind = "play", !.pc = "ensuring", !.len = n,
                                 !.slowMode = slow, !.tab = tab]]
    /\ UNCHANGED <<now, contentSide, playVars, storeVars, bgIsRecording, currentWorkflow,
                   recordingTabId, sessionLog, starting, stopping, tabRecording, recordMsgs, created,
                   stepsSent>>

\* RUN_HEALTH_CHECK or the alarm: runHealthCheck up to ensureContentScript of
\* its first step, in a tab of its own
HealthCheckStarts(r, n, slow) ==
    /\ runs[r].pc = "idle"
    /\ \A q \in 1..(r - 1) : runs[q].pc # "idle"
    /\ runs' = [runs EXCEPT ![r] =
                   [NoRun EXCEPT !.kind = "health", !.pc = "ensuring", !.len = n,
                                 !.slowMode = slow, !.tab = HealthTab(r)]]
    /\ UNCHANGED <<now, contentSide, playVars, storeVars, bgIsRecording, currentWorkflow,
                   recordingTabId, sessionLog, starting, stopping, tabRecording, recordMsgs, created,
                   stepsSent>>

\* ensureContentScript has settled: EXECUTE_STEP is sent to the tab
ExecuteStepSends(r) ==
    /\ runs[r].pc = "ensuring"
    /\ runs' = [runs EXCEPT ![r].pc = "awaiting"]
    /\ UNCHANGED <<now, contentSide, playVars, storeVars, bgIsRecording, currentWorkflow,
                   recordingTabId, sessionLog, starting, stopping, tabRecording, recordMsgs, created,
                   stepsSent>>

\* the sleep after a completed step: stepDelay in handlePlayWorkflow, 300 in
\* runHealthCheck
DelayAfterStep(run) == IF run.kind = "play" THEN stepDelay(run) ELSE HealthStepDelay

\* the content script of the tab executes the step and answers: the click it
\* dispatches is captured like any other while the script is recording
ContentExecutes(r, found) ==
    /\ runs[r].pc = "awaiting"
    /\ IF found
       THEN /\ runs' = [runs EXCEPT ![r].pc = "delay",
                                    ![r].delay = DelayAfterStep(runs[r])]
            /\ IF tabRecording[runs[r].tab] /\ stepsSent < MaxRecordMsgs
               THEN /\ recordMsgs' =
                           recordMsgs \cup
                               {RecordStepMsg(runs[r].tab, "replay", stepsSent + 1)}
                    /\ stepsSent' = stepsSent + 1
               ELSE UNCHANGED <<recordMsgs, stepsSent>>
       ELSE /\ runs' = [runs EXCEPT ![r].pc = "returned", ![r].success = FALSE]
            /\ UNCHANGED <<recordMsgs, stepsSent>>
    /\ UNCHANGED <<now, contentSide, playVars, storeVars, bgIsRecording, currentWorkflow,
                   recordingTabId, sessionLog, starting, stopping, tabRecording, created>>

\* i++ and the loop's test: the next step's executeStep, or { success: true }
NextIteration(run) ==
    IF run.idx + 1 < run.len
    THEN [run EXCEPT !.idx = run.idx + 1, !.pc = "ensuring", !.delay = 0]
    ELSE [run EXCEPT !.idx = run.idx + 1, !.pc = "returned", !.delay = 0,
                     !.success = TRUE]

\* the sleep after a step resolves: the next iteration of the loop
RunSleepEnds(r) ==
    /\ runs[r].pc = "delay"
    /\ runs' = [runs EXCEPT ![r] = NextIteration(runs[r])]
    /\ UNCHANGED <<now, contentSide, playVars, storeVars, bgIsRecording, currentWorkflow,
                   recordingTabId, sessionLog, starting, stopping, tabRecording, recordMsgs, created,
                   stepsSent>>

\* time passes
OrchTick ==
    /\ now < MaxOrchClock
    /\ now' = now + 1
    /\ UNCHANGED <<contentSide, playVars, orchVars, storeVars>>

\* ------------------------------------------------------------------------
\* The workflow store, the schedules and the alarms (background.js)
\* ------------------------------------------------------------------------

MaxIds == 2
MaxCalls == 3
MaxPending == 2

\* the ids generateId has given out
WorkflowIds == 1..MaxIds

\* schedules[workflowId] is undefined
NoSchedule == [intervalMinutes |-> 0, lastStatus |-> "none", lastError |-> FALSE]

\* { intervalMinutes, createdAt, lastRun: null, lastStatus: null }
NewSchedule(intervalMinutes) ==
    [intervalMinutes |-> intervalMinutes, lastStatus |-> "null", lastError |-> FALSE]

NoSchedules == [w \in WorkflowIds |-> NoSchedule]

\* no runHealthCheck call has been made
NoHealth ==
    [pc |-> "idle", id |-> 0, len |-> 0, executed |-> << >>, failedAt |-> 0,
     error |-> FALSE, tabCreated |-> FALSE, tabOpen |-> FALSE, userClosed |-> FALSE,
     all |-> NoSchedules, notified |-> FALSE, result |-> "none", made |-> 0,
     callsBefore |-> 0, alone |-> TRUE]

StoreIdle ==
    /\ workflows = << >>
    /\ schedules = NoSchedules
    /\ alarms = {}
    /\ calls = << >>
    /\ callsMade = 0
    /\ overlapped = FALSE
    /\ completed = << >>
    /\ health = NoHealth

\* workflows.findIndex(w => w.id === id), from 1; 0 for -1
RECURSIVE FindIndexFrom(_, _, _)
FindIndexFrom(list, id, i) ==
    IF i > Len(list) THEN 0
    ELSE IF list[i].id = id THEN i
    ELSE FindIndexFrom(list, id, i + 1)

findIndex(list, id) == FindIndexFrom(list, id, 1)

\* saveWorkflow with push in every case
saveWorkflowAlwaysPush(list, workflow) == Append(list, workflow)

\* saveWorkflow between its two awaits: the list it writes
saveWorkflow(list, workflow) ==
    IF findIndex(list, workflow.id) > 0
    THEN [list EXCEPT ![findIndex(list, workflow.id)] = workflow]
    ELSE Append(list, workflow)

\* deleteWorkflow between its two awaits: workflows.filter(w => w.id !== id)
deleteWorkflow(list, id) == SelectSeq(list, LAMBDA w : w.id # id)

\* saveSchedule between its two awaits: the object it writes
saveSchedule(all, workflowId, schedule) == [all EXCEPT ![workflowId] = schedule]

\* a call of the orchestrator that reads a key of the store and writes it back
StorageCall(kind, id, workflow, minutes) ==
    [kind |-> kind, id |-> id, workflow |-> workflow, minutes |-> minutes,
     pc |-> IF kind = "schedule" THEN "alarm" ELSE "reading",
     list |-> << >>, all |-> NoSchedules]

\* the bounds on the calls made and on those under way at once
CanBegin == callsMade < MaxCalls /\ Len(calls) < MaxPending

\* the call joins those under way
Begin(call) ==
    /\ calls' = Append(calls, call)
    /\ callsMade' = callsMade + 1
    /\ overlapped' = (overlapped \/ calls # << >>)
    /\ UNCHANGED <<now, contentSide, playVars, orchVars, workflows, schedules, alarms,
                   completed, health>>

\* SAVE_WORKFLOW: saveWorkflow(message.data) up to its first await
SaveWorkflowBegins(workflow) ==
    /\ CanBegin
    /\ Begin(StorageCall("save", workflow.id, workflow, 0))

\* DELETE_WORKFLOW: deleteWorkflow(message.data.id) up to its first await
DeleteWorkflowBegins(id) ==
    /\ CanBegin
    /\ Begin(StorageCall("delete", id, NoWorkflow, 0))

\* SCHEDULE_WORKFLOW: scheduleWorkflow(workflowId, intervalMinutes) up to its
\* first await
ScheduleWorkflowBegins(id, minutes) ==
    /\ CanBegin
    /\ Begin(StorageCall("schedule", id, NoWorkflow, minutes))

\* chrome.alarms.clear or chrome.alarms.create has settled; saveSchedule is
\* called and awaits getSchedules
AlarmSettles(i) ==
    /\ i \in 1..Len(calls)
    /\ calls[i].pc = "alarm"
    /\ alarms' = IF calls[i].minutes <= 0 THEN alarms \ {calls[i].id}
                 ELSE alarms \cup {calls[i].id}
    /\ calls' = [calls EXCEPT ![i].pc = "reading"]
    /\ UNCHANGED <<now, contentSide, playVars, orchVars, workflows, schedules, callsMade,
                   overlapped, completed, health>>

\* chrome.storage.local.get has settled: the call changes what it read and
\* hands it to chrome.storage.local.set
StorageGetSettles(i) ==
    /\ i \in 1..Len(calls)
    /\ calls[i].pc = "reading"
    /\ calls' = [calls EXCEPT
           ![i].pc = "writing",
           ![i].list = IF calls[i].kind = "save"
                           THEN saveWorkflow(workflows, calls[i].workflow)
                       ELSE IF calls[i].kind = "delete"
                           THEN deleteWorkflow(workflows, calls[i].id)
                       ELSE << >>,
           ![i].all = IF calls[i].kind = "schedule"
                          THEN saveSchedule(schedules, calls[i].id,
                                   IF calls[i].minutes <= 0 THEN NoSchedule
                                   ELSE NewSchedule(calls[i].minutes))
                      ELSE NoSchedules]
    /\ UNCHANGED <<now, contentSide, playVars, orchVars, workflows, schedules, alarms,
                   callsMade, overlapped, completed, health>>

\* chrome.storage.local.set has settled: the key holds what the call handed
\* over, and the call returns
StorageSetSettles(i) ==
    /\ i \in 1..Len(calls)
    /\ calls[i].pc = "writing"
    /\ IF calls[i].kind = "schedule"
       THEN schedules' = calls[i].all /\ UNCHANGED workflows
       ELSE workflows' = calls[i].list /\ UNCHANGED schedules
    /\ calls' = RemoveAt(calls, i)
    /\ completed' = Append(completed, calls[i])
    /\ UNCHANGED <<now, contentSide, playVars, orchVars, alarms, callsMade, overlapped,
                   health>>

\* ------------------------------------------------------------------------
\* The health check (background.js runHealthCheck)
\* ------------------------------------------------------------------------

MaxHealthRuns == 1

\* the store's other variables, which a health check never writes
HealthLeaves ==
    <<now, contentSide, playVars, orchVars, workflows, alarms, calls, callsMade,
      overlapped, completed>>

\* schedules[workflowId] with lastStatus (and lastError in the catch) set
markSchedule(all, id, error) ==
    [all EXCEPT ![id].lastStatus = IF error THEN "failed" ELSE "success",
                ![id].lastError = IF error THEN TRUE ELSE @]

\* RUN_HEALTH_CHECK or the alarm of a workflow: runHealthCheck up to its
\* first await, getWorkflows
RunHealthCheckBegins(id) ==
    /\ health.pc \in {"idle", "returned"}
    /\ health.made < MaxHealthRuns
    /\ health' = [NoHealth EXCEPT !.pc = "finding", !.id = id, !.made = health.made + 1,
                                  !.callsBefore = callsMade, !.alone = (calls = << >>)]
    /\ UNCHANGED <<HealthLeaves, schedules>>

\* getWorkflows has settled: 'Workflow not found' is returned, or
\* chrome.tabs.create is called
HealthWorkflowFound ==
    /\ health.pc = "finding"
    /\ health' =
           IF findIndex(workflows, health.id) = 0
           THEN [health EXCEPT !.pc = "returned", !.result = "not found"]
           ELSE [health EXCEPT
                    !.pc = "creating",
                    !.len = Len(workflows[findIndex(workflows, health.id)].steps)]
    /\ UNCHANGED <<HealthLeaves, schedules>>

\* chrome.tabs.create has settled: the loop's first executeStep, or
\* getSchedules when the workflow has no step
HealthTabCreated ==
    /\ health.pc = "creating"
    /\ health' = [health EXCEPT !.tabCreated = TRUE, !.tabOpen = TRUE,
                                !.pc = IF health.len = 0 THEN "reading" ELSE "executing"]
    /\ UNCHANGED <<HealthLeaves, schedules>>

\* executeStep(tab.id, step) has settled, or has thrown: sleep(300), or the
\* catch block up to getSchedules. A step cannot succeed in a closed tab.
HealthStepSettles(ok) ==
    /\ health.pc = "executing"
    /\ ok => health.tabOpen
    /\ health' =
           IF ok
           THEN [health EXCEPT !.executed = Append(@, Len(@) + 1), !.pc = "sleeping"]
           ELSE [health EXCEPT !.executed = Append(@, Len(@) + 1),
                               !.failedAt = Len(health.executed) + 1,
                               !.error = TRUE, !.pc = "reading"]
    /\ UNCHANGED <<HealthLeaves, schedules>>

\* sleep(300) has settled: i++ and the loop's test
HealthSleepEnds ==
    /\ health.pc = "sleeping"
    /\ health' = [health EXCEPT
           !.pc = IF Len(health.executed) < health.len THEN "executing" ELSE "reading"]
    /\ UNCHANGED <<HealthLeaves, schedules>>

\* getSchedules has settled, after the loop or in the catch block: the entry
\* of the workflow, when there is one, is marked and the object handed to
\* chrome.storage.local.set
HealthSchedulesRead ==
    /\ health.pc = "reading"
    /\ health' =
           IF schedules[health.id] # NoSchedule
           THEN [health EXCEPT !.pc = "writing",
                               !.all = markSchedule(schedules, health.id, health.error)]
           ELSE [health EXCEPT !.pc = IF health.error THEN "notifying" ELSE "closing"]
    /\ UNCHANGED <<HealthLeaves, schedules>>

\* chrome.storage.local.set({ schedules }) has settled: chrome.tabs.remove
\* after the loop, chrome.notifications.create in the catch block
HealthScheduleWritten ==
    /\ health.pc = "writing"
    /\ schedules' = health.all
    /\ health' = [health EXCEPT !.pc = IF health.error THEN "notifying" ELSE "closing"]
    /\ UNCHANGED HealthLeaves

\* chrome.tabs.remove(tab.id) after the loop has settled, and the call
\* returns { success: true }; it rejects when the tab is gone, which the
\* catch block takes for a failed run
HealthTabRemoved ==
    /\ health.pc = "closing"
    /\ health' =
           IF health.tabOpen
           THEN [health EXCEPT !.tabOpen = FALSE, !.pc = "returned", !.result = "success"]
           ELSE [health EXCEPT !.error = TRUE, !.pc = "reading"]
    /\ UNCHANGED <<HealthLeaves, schedules>>

\* chrome.notifications.create has settled or rejected (the rejection is
\* caught): the tab is closed
HealthNotified ==
    /\ health.pc = "notifying"
    /\ health' = [health EXCEPT !.notified = TRUE, !.pc = "removing"]
    /\ UNCHANGED <<HealthLeaves, schedules>>

\* chrome.tabs.remove(tab.id) in the catch block has settled or rejected (the
\* rejection is caught): { success: false, error } is returned
HealthFailureReturned ==
    /\ health.pc = "removing"
    /\ health' = [health EXCEPT !.tabOpen = FALSE, !.pc = "returned", !.result = "failure"]
    /\ UNCHANGED <<HealthLeaves, schedules>>

\* the user closes the tab of the health check
UserClosesHealthTab ==
    /\ health.pc \notin {"idle", "returned"}
    /\ health.tabOpen
    /\ health' = [health EXCEPT !.tabOpen = FALSE, !.userClosed = TRUE]
    /\ UNCHANGED <<HealthLeaves, schedules>>

\* ------------------------------------------------------------------------
\* Recording sessions of the orchestrator (background.js handleStartRecording,
\* handleStopRecording, handleRecordStep)
\* ------------------------------------------------------------------------

\* history: how a START_RECORDING or STOP_RECORDING call that passed its guard
\* ended; for a stop that succeeded, the workflow handed to the store and the
\* workflow in the answer
SessionEnd(ev, result, stored, returned) ==
    [ev |-> ev, result |-> result, stored |-> stored, returned |-> returned]

Ended(ev) == {k \in 1..Len(sessionLog) : sessionLog[k].ev = ev}

\* START_RECORDING: handleStartRecording up to its first await; 'Already
\* recording' is thrown when isRecording is set
StartRecordingBegins(tab, url) ==
    /\ Cardinality(Ended("start")) + Len(starting) < MaxStarts
    /\ IF bgIsRecording
       THEN UNCHANGED starting
       ELSE starting' = Append(starting, [tab |-> tab, url |-> url, pc |-> "ensuring"])
    /\ UNCHANGED <<now, contentSide, playVars, storeVars, bgIsRecording, currentWorkflow,
                   recordingTabId, stopping, tabRecording, recordMsgs, runs, created,
                   stepsSent, sessionLog>>

\* findValidTab found no tab, or ensureContentScript could not inject: the
\* call throws before it has assigned anything
StartRecordingRefused(i) ==
    /\ i \in 1..Len(starting)
    /\ starting[i].pc = "ensuring"
    /\ starting' = RemoveAt(starting, i)
    /\ sessionLog' = Append(sessionLog, SessionEnd("start", "refused", NoWorkflow, NoWorkflow))
    /\ UNCHANGED <<now, contentSide, playVars, storeVars, bgIsRecording, currentWorkflow,
                   recordingTabId, stopping, tabRecording, recordMsgs, runs, created,
                   stepsSent>>

\* currentWorkflow = { ..., steps: [] } with the navigate step of a given url
NewWorkflow(id, url, t) ==
    [id |-> id,
     steps |-> IF url THEN <<[type |-> "navigate", origin |-> "start", timestamp |-> t]>>
               ELSE << >>]

\* ensureContentScript has settled: the workflow is created; with a url the
\* handler awaits chrome.tabs.update before it sets isRecording
StartRecordingCreates(i) ==
    /\ i \in 1..Len(starting)
    /\ starting[i].pc = "ensuring"
    /\ currentWorkflow' = NewWorkflow(created + 1, starting[i].url, now)
    /\ created' = created + 1
    /\ IF starting[i].url
       THEN /\ starting' = [starting EXCEPT ![i].pc = "navigating"]
            /\ UNCHANGED <<bgIsRecording, recordingTabId>>
       ELSE /\ starting' = [starting EXCEPT ![i].pc = "notifying"]
            /\ bgIsRecording' = TRUE
            /\ recordingTabId' = starting[i].tab
    /\ UNCHANGED <<now, contentSide, playVars, storeVars, stopping, tabRecording,
                   recordMsgs, runs, stepsSent, sessionLog>>

\* chrome.tabs.update(tabId, { url }) has settled: the page of the tab is
\* replaced, and isRecording = true
StartRecordingCommits(i) ==
    /\ i \in 1..Len(starting)
    /\ starting[i].pc = "navigating"
    /\ starting' = [starting EXCEPT ![i].pc = "notifying"]
    /\ bgIsRecording' = TRUE
    /\ recordingTabId' = starting[i].tab
    /\ tabRecording' = [tabRecording EXCEPT ![starting[i].tab] = FALSE]
    /\ UNCHANGED <<now, contentSide, playVars, storeVars, currentWorkflow, stopping,
                   recordMsgs, runs, created, stepsSent, sessionLog>>

\* chrome.tabs.update(tabId, { url }) has rejected: the call throws
StartNavigationRejected(i) ==
    /\ i \in 1..Len(starting)
    /\ starting[i].pc = "navigating"
    /\ starting' = RemoveAt(starting, i)
    /\ sessionLog' =
           Append(sessionLog, SessionEnd("start", "navigation rejected", NoWorkflow, NoWorkflow))
    /\ UNCHANGED <<now, contentSide, playVars, storeVars, bgIsRecording, currentWorkflow,
                   recordingTabId, stopping, tabRecording, recordMsgs, runs, created,
                   stepsSent>>

\* RECORDING_STARTED reaches the content script of the tab, at the first
\* attempt or at the second, and the call answers { success: true, workflow }
RecordingStartedArrives(i) ==
    /\ i \in 1..Len(starting)
    /\ starting[i].pc = "notifying"
    /\ tabRecording' = [tabRecording EXCEPT ![starting[i].tab] = TRUE]
    /\ starting' = RemoveAt(starting, i)
    /\ sessionLog' =
           Append(sessionLog, SessionEnd("start", "success", NoWorkflow, NoWorkflow))
    /\ UNCHANGED <<now, contentSide, playVars, storeVars, bgIsRecording, currentWorkflow,
                   recordingTabId, stopping, recordMsgs, runs, created, stepsSent>>

\* chrome.tabs.sendMessage(tabId, RECORDING_STARTED) has rejected twice (no
\* content script in the tab yet, or the tab is gone): the call throws
RecordingStartedUndeliverable(i) ==
    /\ i \in 1..Len(starting)
    /\ starting[i].pc = "notifying"
    /\ starting' = RemoveAt(starting, i)
    /\ sessionLog' =
           Append(sessionLog, SessionEnd("start", "undeliverable", NoWorkflow, NoWorkflow))
    /\ UNCHANGED <<now, contentSide, playVars, storeVars, bgIsRecording, currentWorkflow,
                   recordingTabId, stopping, tabRecording, recordMsgs, runs, created,
                   stepsSent>>

\* the page of a tab is reloaded or navigated: its content script is replaced
\* by a new one, whose isRecording is false
TabNavigates(tab) ==
    /\ tabRecording' = [tabRecording EXCEPT ![tab] = FALSE]
    /\ UNCHANGED <<now, contentSide, playVars, storeVars, bgIsRecording, currentWorkflow,
                   recordingTabId, starting, stopping, recordMsgs, runs, created,
                   stepsSent, sessionLog>>

\* STOP_RECORDING: handleStopRecording up to its first await, the send of
\* RECORDING_STOPPED; 'Not recording' is thrown unless isRecording is set
StopRecordingBegins ==
    /\ Cardinality(Ended("stop")) + Len(stopping) < MaxStops
    /\ IF ~bgIsRecording
       THEN UNCHANGED stopping
       ELSE stopping' = Append(stopping,
                            [tab |-> recordingTabId, pc |-> "notifying",
                             workflow |-> NoWorkflow, stored |-> NoWorkflow,
                             list |-> << >>])
    /\ UNCHANGED <<now, contentSide, playVars, storeVars, bgIsRecording, currentWorkflow,
                   recordingTabId, starting, tabRecording, recordMsgs, runs, created,
                   stepsSent, sessionLog>>

\* RECORDING_STOPPED has been handled by the tab, or could not be delivered:
\* currentWorkflow.updatedAt throws when another stop has reset the state;
\* otherwise saveWorkflow(currentWorkflow) is called and awaits getWorkflows
StopRecordingNotified(i) ==
    /\ i \in 1..Len(stopping)
    /\ stopping[i].pc = "notifying"
    /\ tabRecording' = [t \in AllTabs |-> tabRecording[t] /\ t # stopping[i].tab]
    /\ IF currentWorkflow = NoWorkflow
       THEN /\ stopping' = RemoveAt(stopping, i)
            /\ sessionLog' =
                   Append(sessionLog, SessionEnd("stop", "TypeError", NoWorkflow, NoWorkflow))
       ELSE /\ stopping' = [stopping EXCEPT ![i].pc = "reading",
                                            ![i].workflow = currentWorkflow]
            /\ UNCHANGED sessionLog
    /\ UNCHANGED <<now, contentSide, playVars, storeVars, bgIsRecording, currentWorkflow,
                   recordingTabId, starting, recordMsgs, runs, created, stepsSent>>

\* getWorkflows has settled in saveWorkflow: the workflow as it is now is put
\* into the list and the list is handed to chrome.storage.local.set
StopRecordingSaves(i) ==
    /\ i \in 1..Len(stopping)
    /\ stopping[i].pc = "reading"
    /\ stopping' = [stopping EXCEPT
           ![i].pc = "writing",
           ![i].stored = stopping[i].workflow,
           ![i].list = saveWorkflow(workflows, stopping[i].workflow)]
    /\ UNCHANGED <<now, contentSide, playVars, storeVars, bgIsRecording, currentWorkflow,
                   recordingTabId, starting, tabRecording, recordMsgs, runs, created,
                   stepsSent, sessionLog>>

\* chrome.storage.local.set has settled: savedWorkflow = currentWorkflow, the
\* state is reset and the call answers { success: true, workflow: savedWorkflow };
\* savedWorkflow.id throws when another stop has reset the state meanwhile
StopRecordingReturns(i) ==
    /\ i \in 1..Len(stopping)
    /\ stopping[i].pc = "writing"
    /\ workflows' = stopping[i].list
    /\ stopping' = RemoveAt(stopping, i)
    /\ bgIsRecording' = FALSE
    /\ currentWorkflow' = NoWorkflow
    /\ recordingTabId' = NoTab
    /\ sessionLog' = Append(sessionLog,
           IF currentWorkflow = NoWorkflow
           THEN SessionEnd("stop", "TypeError", stopping[i].stored, NoWorkflow)
           ELSE SessionEnd("stop", "success", stopping[i].stored, currentWorkflow))
    /\ UNCHANGED <<now, contentSide, playVars, schedules, alarms, calls, callsMade,
                   overlapped, completed, health, starting, tabRecording, recordMsgs, runs,
                   created, stepsSent>>

\* the user acts in a tab whose content script is recording: the Step is sent
\* at once (handleClick), or 500 ms later whatever isRecording is by then
\* (handleInput's timer)
UserActs(tab) ==
    /\ tabRecording[tab]
    /\ stepsSent < MaxRecordMsgs
    /\ recordMsgs' = recordMsgs \cup {RecordStepMsg(tab, "user", stepsSent + 1)}
    /\ stepsSent' = stepsSent + 1
    /\ UNCHANGED <<now, contentSide, playVars, storeVars, bgIsRecording, currentWorkflow,
                   recordingTabId, starting, stopping, tabRecording, runs, created,
                   sessionLog>>

\* handleRecordStep without the check of the sender's tab
handleRecordStepAnyTab(wf, recording, recTab, msg, t) ==
    IF ~recording \/ wf = NoWorkflow THEN wf
    ELSE [wf EXCEPT !.steps =
              Append(@, [type |-> "click", origin |-> msg.origin, timestamp |-> t])]

\* handleRecordStep(step, tabId) at time t: the workflow afterwards
handleRecordStep(wf, recording, recTab, msg, t) ==
    IF ~recording \/ wf = NoWorkflow THEN wf
    ELSE IF msg.tab # recTab THEN wf
    ELSE [wf EXCEPT !.steps =
              Append(@, [type |-> "click", origin |-> msg.origin, timestamp |-> t])]

\* the stops that hold a reference to the workflow object see what is pushed
\* to it
Aliased(stops, wf) ==
    [k \in 1..Len(stops) |->
        IF stops[k].workflow.id = wf.id THEN [stops[k] EXCEPT !.workflow = wf]
        ELSE stops[k]]

\* chrome.runtime.onMessage: RECORD_STEP; the messages of one tab arrive in the
\* order they were sent
OnRecordStep(msg) ==
    /\ msg \in recordMsgs
    /\ \A other \in recordMsgs : other.tab = msg.tab => msg.seq <= other.seq
    /\ currentWorkflow' =
           handleRecordStep(currentWorkflow, bgIsRecording, recordingTabId, msg, now)
    /\ stopping' = Aliased(stopping, currentWorkflow')
    /\ recordMsgs' = recordMsgs \ {msg}
    /\ UNCHANGED <<now, contentSide, playVars, storeVars, bgIsRecording, recordingTabId,
                   starting, tabRecording, runs, created, stepsSent, sessionLog>>

\* ------------------------------------------------------------------------
\* Synthesis and resolution on one unmodified document
\* ------------------------------------------------------------------------

MaxSiblings == 3

\* what a child of <body> can be
SiblingKinds ==
    {[Elem("BUTTON", Body, 0) EXCEPT
            !.attrs = [NoAttrs EXCEPT !["data-testid"] = <<"t">>]],
     [Elem("BUTTON", Body, 0) EXCEPT !.id = <<"a">>],
     [Elem("INPUT", Body, 0) EXCEPT !.attrs = [NoAttrs EXCEPT !["name"] = <<"q">>]],
     [Elem("BUTTON", Body, 0) EXCEPT !.text = <<"x">>],
     [Elem("DIV", Body, 0) EXCEPT !.className = << <<"c">> >>],
     Elem("SPAN", Body, 0)}

\* a text and an attribute value with a comma in them
CommaText == <<"a", ",", " ", "b">>

CommaValue == <<"a", ",", "b">>

\* what else an element of the document can be: elements that qualify for
\* several priority levels at once, elements whose text or attribute value
\* has a comma, and elements whose id looks generated
RichKinds ==
    {[Elem("BUTTON", Body, 0) EXCEPT
            !.id = <<"a">>, !.attrs = [NoAttrs EXCEPT !["data-testid"] = <<"t">>]],
     [Elem("INPUT", Body, 0) EXCEPT
            !.attrs = [NoAttrs EXCEPT !["data-test-id"] = <<"u">>, !["data-cy"] = <<"v">>,
                                      !["data-id"] = <<"w">>, !["name"] = <<"q">>]],
     [Elem("INPUT", Body, 0) EXCEPT
            !.attrs = [NoAttrs EXCEPT !["data-cy"] = <<"v">>, !["data-id"] = <<"w">>]],
     [Elem("INPUT", Body, 0) EXCEPT
            !.attrs = [NoAttrs EXCEPT !["data-id"] = <<"w">>, !["name"] = <<"q">>]],
     [Elem("A", Body, 0) EXCEPT
            !.attrs = [NoAttrs EXCEPT !["href"] = <<"/", "p">>, !["aria-label"] = <<"l">>],
            !.text = <<"x">>],
     [Elem("SPAN", Body, 0) EXCEPT
            !.attrs = [NoAttrs EXCEPT !["aria-label"] = <<"l">>, !["title"] = <<"h">>],
            !.text = <<"x">>],
     [Elem("INPUT", Body, 0) EXCEPT
            !.attrs = [NoAttrs EXCEPT !["title"] = <<"h">>, !["placeholder"] = <<"p">>],
            !.className = << <<"c">> >>],
     [Elem("INPUT", Body, 0) EXCEPT
            !.attrs = [NoAttrs EXCEPT !["placeholder"] = <<"p">>]],
     [Elem("BUTTON", Body, 0) EXCEPT
            !.id = SubmitBtnId,
            !.attrs = [NoAttrs EXCEPT !["data-testid"] = <<"s", "u", "b", "m", "i", "t">>]],
     [Elem("BUTTON", Body, 0) EXCEPT !.text = CommaText],
     [Elem("INPUT", Body, 0) EXCEPT
            !.attrs = [NoAttrs EXCEPT !["data-testid"] = CommaValue]]}
    \cup {[Elem("DIV", Body, 0) EXCEPT !.id = id] : id \in UnstableIds}

\* <html><body> and its children
DocumentOf(children) == <<Elem("HTML", 0, 0), Elem("BODY", 1, 0)>> \o children

\* two children, the second one inside the first one
Nested(children) ==
    <<children[1], [children[2] EXCEPT !.parent = Body + 1]>>

\* up to MaxSiblings plain children of <body>, or fewer children of any kind,
\* or two of any kind, one inside the other
Documents ==
    {DocumentOf(children) :
        children \in UNION {[1..n -> SiblingKinds] : n \in 1..MaxSiblings}}
    \cup {DocumentOf(children) :
        children \in UNION {[1..n -> SiblingKinds \cup RichKinds] :
                                n \in 1..(MaxSiblings - 1)}}
    \cup {DocumentOf(Nested(children)) :
        children \in [1..2 -> SiblingKinds \cup RichKinds]}

\* generateSelector(element) on the document
Synthesize(e) ==
    /\ selPc = "idle"
    /\ e \in ElementIds(selDom)
    /\ selTarget' = e
    /\ selLocator' = generateSelector(selDom, e)
    /\ selPc' = "synthesized"
    /\ UNCHANGED <<captureVars, execVars, playVars, bgVars, selDom, selResolved>>

\* waitForElement(locator) on the same document: what every poll finds, or
\* null (0) when the wait runs out
Resolve ==
    /\ selPc = "synthesized"
    /\ selLocator # EmptyStr
    /\ selResolved' = PollOnce(selDom, selLocator)
    /\ selPc' = "resolved"
    /\ UNCHANGED <<captureVars, execVars, playVars, bgVars, selDom, selTarget, selLocator>>

SelectorIdle ==
    /\ selDom = << >>
    /\ selTarget = 0
    /\ selLocator = EmptyStr
    /\ selResolved = 0
    /\ selPc = "idle"

InitPage(ins, sh, hid) ==
    /\ now = 0
    /\ inserted = ins
    /\ shadowed = sh
    /\ hiddenEls = hid
    /\ value = [e \in ValueElems |-> EmptyStr]
    /\ isRecording = FALSE
    /\ shadowObserver = FALSE
    /\ attachedShadowRoots = {}
    /\ observing = 0
    /\ mutationQueue = << >>
    /\ listeners = {}
    /\ indicator = FALSE
    /\ timers = {}
    /\ waveInputTimeout = [e \in PageIds |-> NoTimer]
    /\ nextTimerId = 1
    /\ sent = << >>
    /\ events = << >>
    /\ prevMsg = "none"
    /\ lastMsg = "none"
    /\ registrations = [h \in Hosts |-> 0]
    /\ rescanned = {}

\* Recording on a page whose custom elements are in place: events, debounce
\* timers and time.
InitCapture ==
    /\ InitPage(Hosts, Hosts, {})
    /\ ExecIdle
    /\ PlayIdle
    /\ SelectorIdle
    /\ OrchIdle
    /\ StoreIdle

NextCapture ==
    \/ OnRecordingStarted
    \/ OnRecordingStopped
    \/ ObserverCallback
    \/ \E t \in TimedClickTargets : UserClick(t)
    \/ \E t \in InputTargets, v \in TypedValues : UserInput(t, v)
    \/ \E t \in ChangeTargets, v \in SelectValues : UserChange(t, v)
    \/ \E tm \in timers : TimerFire(tm)
    \/ TickCapture

SpecCapture == InitCapture /\ [][NextCapture]_vars

MaxPageClicks == 2

\* a click on the page whose custom elements come and go
PageClick(t) ==
    /\ Len(events) < MaxPageClicks
    /\ UserClick(t)

\* Recording sessions on a page that inserts, removes and upgrades custom
\* elements: listeners, observer, indicator.
InitLifecycle ==
    /\ InitPage({}, {}, {})
    /\ ExecIdle
    /\ PlayIdle
    /\ SelectorIdle
    /\ OrchIdle
    /\ StoreIdle

NextLifecycle ==
    \/ OnRecordingStarted
    \/ OnRecordingStopped
    \/ ObserverCallback
    \/ \E h \in Hosts : InsertHost(h)
    \/ \E h \in Hosts : RemoveHost(h)
    \/ \E h \in Hosts : AttachShadow(h)
    \/ \E t \in ClickTargets : PageClick(t)

SpecLifecycle == InitLifecycle /\ [][NextLifecycle]_vars

\* One EXECUTE_STEP on a page that shows or hides an element meanwhile.
InitExec ==
    /\ \E hid \in SUBSET ToggledEls : InitPage(Hosts, Hosts, hid)
    /\ ExecIdle
    /\ PlayIdle
    /\ SelectorIdle
    /\ OrchIdle
    /\ StoreIdle

NextExec ==
    \/ \E step \in ExecSteps : OnExecuteStep(step)
    \/ WaitForElementWakes
    \/ StepActs
    \/ \E e \in ToggledEls : ShowElement(e)
    \/ \E e \in ToggledEls : HideElement(e)
    \/ TickExec

SpecExec == InitExec /\ [][NextExec]_vars

\* waitForElement's sleep(100) is due
PollDue == execPc = "polling" /\ now = wakeAt

\* the same, with the event loop running every timer that is due and time
\* going on. WaitForElementWakes can act exactly when PollDue holds, and it
\* always changes polls or execPc, so the first conjunct is
\* WF_vars(WaitForElementWakes) written out.
SpecExecFair ==
    /\ SpecExec
    /\ ([]<>~PollDue \/ []<><<WaitForElementWakes>>_vars)
    /\ WF_vars(StepActs)
    /\ WF_vars(TickExec)

\* One PLAY_WORKFLOW for a stored workflow, with every way its steps can end.
InitReplay ==
    /\ InitPage(Hosts, Hosts, {})
    /\ ExecIdle
    /\ SelectorIdle
    /\ OrchIdle
    /\ StoreIdle
    /\ playPc = "idle"
    /\ playIdx = 0
    /\ playWake = 0
    /\ playLog = << >>
    /\ playResult = Null
    /\ attemptLog = << >>
    /\ \E steps \in StepSeqs, slow \in BOOLEAN :
           playWorkflow = [steps |-> steps, slowMode |-> slow]
    /\ tabUrl \in {HomeUrl, NewTabUrl}

NextReplay ==
    \/ \E found \in BOOLEAN : OnPlayWorkflow(found)
    \/ \E outcome \in NavigationOutcomes : NavigationEnds(outcome)
    \/ \E outcome \in EnsureOutcomes : EnsureEnds(outcome)
    \/ \E reply \in PendingReplies : ResponseArrives(reply)
    \/ StepTimesOut
    \/ \E outcome \in EnsureOutcomes : ReEnsureEnds(outcome)
    \/ RetrySleepEnds
    \/ \E reply \in PendingReplies : RetryResponseArrives(reply)
    \/ WaitEnds
    \/ StepDelayEnds

SpecReplay == InitReplay /\ [][NextReplay]_vars

\* generateSelector, then waitForElement, on every document of the palette.
InitSelector ==
    /\ InitPage(Hosts, Hosts, {})
    /\ ExecIdle
    /\ PlayIdle
    /\ OrchIdle
    /\ StoreIdle
    /\ selDom \in Documents
    /\ selTarget = 0
    /\ selLocator = EmptyStr
    /\ selResolved = 0
    /\ selPc = "idle"

NextSelector ==
    \/ \E e \in 1..(MaxSiblings + Body) : Synthesize(e)
    \/ Resolve

SpecSelector == InitSelector /\ [][NextSelector]_vars

\* Recording sessions of the orchestrator: START_RECORDING, STOP_RECORDING and
\* RECORD_STEP in any order, and time.
InitOrchestrator ==
    /\ InitPage(Hosts, Hosts, {})
    /\ ExecIdle
    /\ PlayIdle
    /\ SelectorIdle
    /\ OrchIdle
    /\ StoreIdle

NextRecording ==
    \/ \E tab \in Tabs, url \in BOOLEAN : StartRecordingBegins(tab, url)
    \/ \E i \in 1..MaxStarts : StartRecordingCreates(i)
    \/ \E i \in 1..MaxStarts : StartRecordingCommits(i)
    \/ \E i \in 1..MaxStarts : RecordingStartedArrives(i)
    \/ StopRecordingBegins
    \/ \E i \in 1..MaxStops : StopRecordingNotified(i)
    \/ \E i \in 1..MaxStops : StopRecordingSaves(i)
    \/ \E i \in 1..MaxStops : StopRecordingReturns(i)
    \/ \E tab \in Tabs : UserActs(tab)
    \/ \E msg \in recordMsgs : OnRecordStep(msg)
    \/ OrchTick

SpecRecording == InitOrchestrator /\ [][NextRecording]_vars

\* Replays the orchestrator is asked for while recording sessions of the first
\* tab start: PLAY_WORKFLOW and health checks in any order.
NextOrchestrator ==
    \/ StartRecordingBegins(1, FALSE)
    \/ \E i \in 1..MaxStarts : StartRecordingCreates(i)
    \/ \E i \in 1..MaxStarts : RecordingStartedArrives(i)
    \/ \E msg \in recordMsgs : OnRecordStep(msg)
    \/ \E r \in RunIds, n \in 1..MaxRunSteps, slow \in BOOLEAN, tab \in Tabs :
           PlayStarts(r, n, slow, tab)
    \/ \E r \in RunIds, n \in 1..MaxRunSteps, slow \in BOOLEAN :
           HealthCheckStarts(r, n, slow)
    \/ \E r \in RunIds : ExecuteStepSends(r)
    \/ \E r \in RunIds, found \in BOOLEAN : ContentExecutes(r, found)
    \/ \E r \in RunIds : RunSleepEnds(r)

SpecOrchestrator == InitOrchestrator /\ [][NextOrchestrator]_vars

\* Recording sessions in one tab, with every way a START_RECORDING can fail,
\* reloads of the page, and the store the workflow is saved to.
NextSession ==
    \/ \E url \in BOOLEAN : StartRecordingBegins(1, url)
    \/ \E i \in 1..MaxStarts : StartRecordingRefused(i)
    \/ \E i \in 1..MaxStarts : StartRecordingCreates(i)
    \/ \E i \in 1..MaxStarts : StartRecordingCommits(i)
    \/ \E i \in 1..MaxStarts : StartNavigationRejected(i)
    \/ \E i \in 1..MaxStarts : RecordingStartedArrives(i)
    \/ \E i \in 1..MaxStarts : RecordingStartedUndeliverable(i)
    \/ StopRecordingBegins
    \/ \E i \in 1..MaxStops : StopRecordingNotified(i)
    \/ \E i \in 1..MaxStops : StopRecordingSaves(i)
    \/ \E i \in 1..MaxStops : StopRecordingReturns(i)
    \/ TabNavigates(1)
    \/ UserActs(1)
    \/ \E msg \in recordMsgs : OnRecordStep(msg)

SpecSession == InitOrchestrator /\ [][NextSession]_vars

\* what SAVE_WORKFLOW can carry: a workflow with one of the ids, with or
\* without a step
EditedWorkflows ==
    {[id |-> id, steps |-> steps] :
        id \in WorkflowIds,
        steps \in {<< >>, <<[type |-> "navigate", origin |-> "start", timestamp |-> 0]>>}}

\* stores whose workflows have distinct ids
InitialStores ==
    {<< >>, <<[id |-> 1, steps |-> << >>]>>,
     <<[id |-> 2, steps |-> << >>], [id |-> 1, steps |-> << >>]>>}

\* chrome.alarms.create takes minutes; zero and below remove the schedule
IntervalChoices == {0, 5}

\* SAVE_WORKFLOW, DELETE_WORKFLOW and SCHEDULE_WORKFLOW in any order, one after
\* the other or overlapping.
InitStore ==
    /\ InitPage(Hosts, Hosts, {})
    /\ ExecIdle
    /\ PlayIdle
    /\ SelectorIdle
    /\ OrchIdle
    /\ workflows \in InitialStores
    /\ schedules = NoSchedules
    /\ alarms = {}
    /\ calls = << >>
    /\ callsMade = 0
    /\ overlapped = FALSE
    /\ completed = << >>
    /\ health = NoHealth

NextStore ==
    \/ \E workflow \in EditedWorkflows : SaveWorkflowBegins(workflow)
    \/ \E id \in WorkflowIds : DeleteWorkflowBegins(id)
    \/ \E id \in WorkflowIds, minutes \in IntervalChoices : ScheduleWorkflowBegins(id, minutes)
    \/ \E i \in 1..MaxPending : AlarmSettles(i)
    \/ \E i \in 1..MaxPending : StorageGetSettles(i)
    \/ \E i \in 1..MaxPending : StorageSetSettles(i)

SpecStore == InitStore /\ [][NextStore]_vars

\* workflows of up to two steps, the first scheduled or not
HealthStores ==
    {<<[id |-> 1, steps |-> steps]>> :
        steps \in {<< >>,
                   <<[type |-> "navigate", origin |-> "start", timestamp |-> 0]>>,
                   <<[type |-> "navigate", origin |-> "start", timestamp |-> 0],
                     [type |-> "click", origin |-> "user", timestamp |-> 1]>>}}

\* Health checks of stored workflows, by message or by alarm, while workflows
\* are scheduled and unscheduled and the user may close the check's tab.
InitHealth ==
    /\ InitPage(Hosts, Hosts, {})
    /\ ExecIdle
    /\ PlayIdle
    /\ SelectorIdle
    /\ OrchIdle
    /\ workflows \in HealthStores
    /\ schedules = NoSchedules
    /\ alarms = {}
    /\ calls = << >>
    /\ callsMade = 0
    /\ overlapped = FALSE
    /\ completed = << >>
    /\ health = NoHealth

NextHealth ==
    \/ \E id \in WorkflowIds, minutes \in IntervalChoices : ScheduleWorkflowBegins(id, minutes)
    \/ \E i \in 1..MaxPending : AlarmSettles(i)
    \/ \E i \in 1..MaxPending : StorageGetSettles(i)
    \/ \E i \in 1..MaxPending : StorageSetSettles(i)
    \/ \E id \in WorkflowIds : RunHealthCheckBegins(id)
    \/ HealthWorkflowFound
    \/ HealthTabCreated
    \/ \E ok \in BOOLEAN : HealthStepSettles(ok)
    \/ HealthSleepEnds
    \/ HealthSchedulesRead
    \/ HealthScheduleWritten
    \/ HealthTabRemoved
    \/ HealthNotified
    \/ HealthFailureReturned
    \/ UserClosesHealthTab

SpecHealth == InitHealth /\ [][NextHealth]_vars

\* ------------------------------------------------------------------------
\* Synthesis and resolution properties
\* ------------------------------------------------------------------------

\* C3: on an unmodified document, waitForElement run on the locator that
\* generateSelector returned for an element returns exactly that element.
C3_RoundTrip == selPc = "resolved" => selResolved = selTarget

\* ------------------------------------------------------------------------
\* Replay orchestration properties
\* ------------------------------------------------------------------------

LogIndexes == 1..Len(playLog)

Logged(a, op, i) == playLog[a].op = op /\ playLog[a].index = i

\* C2: handlePlayWorkflow issues the steps in order, each at most once and
\* none skipped; step i+1 only after step i has completed successfully; a
\* failing step k is the last thing that happens: no step is issued after it,
\* and the answer is a failure whose message names step k+1 and whose
\* stepIndex is k; success is answered only when every step has completed.
C2_ReplaySequencing ==
    /\ \A a, b \in LogIndexes :
          (a < b /\ playLog[a].op = "issue" /\ playLog[b].op = "issue") =>
              playLog[a].index < playLog[b].index
    /\ \A b \in LogIndexes :
          playLog[b].op = "issue" =>
              \A i \in 0..(playLog[b].index - 1) :
                  \E a \in 1..(b - 1) : Logged(a, "complete", i)
    /\ \A b \in LogIndexes :
          playLog[b].op \in {"complete", "fail", "send"} =>
              /\ \E a \in 1..(b - 1) : Logged(a, "issue", playLog[b].index)
              /\ \A c \in 1..(b - 1) : playLog[c].op = "issue" =>
                                          playLog[c].index <= playLog[b].index
    /\ \A a \in LogIndexes :
          playLog[a].op = "fail" =>
              /\ a = Len(playLog)
              /\ ~\E c \in LogIndexes : Logged(c, "complete", playLog[a].index)
              /\ playPc = "returned"
              /\ ~playResult.success
              /\ playResult.stepIndex = playLog[a].index
              /\ StartsWithAt(playResult.error,
                              <<"Step ">> \o DecimalStr(playLog[a].index + 1)
                                  \o <<" failed: ">>, 1)
    /\ (playPc = "returned" /\ playResult.success) =>
          \A i \in 0..(Len(playWorkflow.steps) - 1) :
              \E a \in LogIndexes : Logged(a, "complete", i)
    /\ (playPc = "returned" /\ playLog # << >> /\ ~playResult.success) =>
          playLog[Len(playLog)].op = "fail"

\* the second of three steps has failed on its second send, after the first
\* completed
C2_Witness ==
    /\ playPc = "returned"
    /\ Len(playWorkflow.steps) = 3
    /\ Len(playLog) >= 2
    /\ Logged(Len(playLog), "fail", 1)
    /\ Logged(Len(playLog) - 1, "send", 1)
    /\ \E a \in LogIndexes : Logged(a, "complete", 0)
    /\ playResult.stepIndex = 1

\* ------------------------------------------------------------------------
\* Replay engine properties
\* ------------------------------------------------------------------------

\* the step's locator has a visible match in the page as it is now
MatchableNow == PollOnce(Dom, execStep.selector) # 0

\* the handler has answered that the element was not found
NotFoundDone ==
    /\ execPc = "done"
    /\ responses = <<Failure(NotFoundError(execStep.selector))>>

\* C9: when no poll before the timeout finds a visible match for any
\* alternative of step.selector, executeStep's one answer is a failure whose
\* message contains the whole locator string as the step carried it, and no
\* click, value assignment or event dispatch (no effect at all) has been
\* performed; and the not-found failure is answered in no other case.
C9_ElementNotFound ==
    /\ (execPc = "done" /\ execElement = 0) =>
          /\ NotFoundDone
          /\ Contains(responses[1].error, execStep.selector)
          /\ effects = << >>
          /\ \A e \in ValueElems : value[e] = EmptyStr
    /\ execPc = "polling" => effects = << >> /\ responses = << >>
    /\ NotFoundDone => execElement = 0

\* a locator of two alternatives has not been found
C9_Witness ==
    /\ NotFoundDone
    /\ execElement = 0
    /\ Len(Alternatives(execStep.selector)) = 2
    /\ polls = WaitTimeout \div PollInterval

\* the timing of a wait: polls at 0, 100, ... after the call started, and a
\* not-found failure between the timeout and one poll interval after it
WaitTiming ==
    /\ NotFoundDone =>
          /\ doneAt - execStart >= WaitTimeout
          /\ doneAt - execStart <= WaitTimeout + PollInterval
    /\ execPc = "polling" =>
          /\ wakeAt = execStart + polls * PollInterval
          /\ now <= wakeAt

\* C10, as stated: a locator that matches nothing is polled every 100ms and
\* is reported not found no earlier than 10000ms after the call started and
\* no later than one poll interval after that; a locator that becomes visibly
\* matchable less than 10000ms after the call started is not reported not
\* found.
C10_ReplayTimeout ==
    /\ WaitTiming
    /\ (NotFoundDone /\ changedAt # NoTime /\ changedAt - execStart < WaitTimeout) =>
          ~MatchableNow

\* C10, amended: the same timing; every poll finds the locator if it is
\* visibly matchable then, and the next poll is at most one interval after a
\* change of the page; so a locator that is matchable by the last poll, 9900ms
\* after the call started, is returned by the first poll at or after it became
\* so, and only one that became matchable after the last poll is reported not
\* found although it is matchable.
C10_ReplayTimeoutLastPoll ==
    /\ WaitTiming
    /\ execPc = "polling" => polls <= WaitTimeout \div PollInterval
    /\ (execPc = "polling" /\ changedAt = NoTime) => ~MatchableNow
    /\ (execPc = "polling" /\ changedAt # NoTime) =>
          /\ changedAt <= wakeAt
          /\ wakeAt - changedAt <= PollInterval
    /\ (NotFoundDone /\ MatchableNow) =>
          /\ changedAt # NoTime
          /\ changedAt - execStart >= WaitTimeout - PollInterval

\* the wait has run out on a locator that became matchable after the last poll
C10_Witness ==
    /\ NotFoundDone
    /\ doneAt - execStart = WaitTimeout
    /\ polls = WaitTimeout \div PollInterval
    /\ changedAt - execStart > WaitTimeout - PollInterval
    /\ MatchableNow

\* ------------------------------------------------------------------------
\* Unknown step types
\* ------------------------------------------------------------------------

\* the step types the orchestrator's and the engine's switches have a case for
KnownStepTypes == {"navigate", "click", "input", "wait"}

\* C11: a step of an unknown type never completes: its execution fails, so
\* the replay stops at it and no later step is issued.
C11_UnknownStepTypeAborts ==
    \A a \in LogIndexes :
        playWorkflow.steps[playLog[a].index + 1].type \notin KnownStepTypes =>
            playLog[a].op # "complete"

\* ------------------------------------------------------------------------
\* Every EXECUTE_STEP is answered
\* ------------------------------------------------------------------------

\* C12: the handler of an EXECUTE_STEP message never answers twice, has
\* answered exactly once when executeStep has settled, with {success: true}
\* or {success: false, error}, and every started executeStep settles.
C12_AnsweredExactlyOnce ==
    /\ [](/\ Len(responses) <= 1
          /\ execPc = "done" <=> Len(responses) = 1
          /\ \A k \in 1..Len(responses) :
                \/ responses[k] = Success
                \/ ~responses[k].success /\ responses[k].error # EmptyStr)
    /\ (execPc \in {"polling", "settling"}) ~> (execPc = "done")

\* a step answered after the page changed while it was waiting
C12_Witness ==
    /\ execPc = "done"
    /\ Len(responses) = 1
    /\ responses[1] = Success
    /\ polls > 1
    /\ domChanges >= 1

\* ------------------------------------------------------------------------
\* Synthesis properties
\* ------------------------------------------------------------------------

\* a locator that descends through several elements
IsPath(locator) == \E k \in 1..Len(locator) : locator[k] = SP

\* [attr="value"], behind a tag name or not
AttributeBased(locator) ==
    /\ locator # EmptyStr
    /\ ~IsPath(locator)
    /\ locator[Len(locator)] = "]"

\* tag.class1.class2
ClassBased(locator) ==
    /\ Len(locator) >= 3
    /\ ~IsPath(locator)
    /\ locator[1] \in TagTokens
    /\ locator[2] = "."

\* C13: an attribute-based or class-combination locator that generateSelector
\* returned matches exactly one element of the document it was made on.
C13_UniquenessEnforced ==
    selPc # "idle" /\ (AttributeBased(selLocator) \/ ClassBased(selLocator)) =>
        MatchCount(selDom, selLocator) = 1

\* the levels of the cascade, first to last
Cascade ==
    <<"id", "data-testid", "data-test-id", "data-cy", "data-id", "name", "href",
      "text", "aria-label", "title", "class", "placeholder", "path">>

\* the level a locator is the form of
StrategyOf(locator) ==
    IF \E k \in 1..Len(locator) : locator[k] = ":text(" THEN "text"
    ELSE IF IsPath(locator) THEN "path"
    ELSE IF locator[1] = "#" THEN "id"
    ELSE IF locator[1] = "[" THEN locator[2]
    ELSE IF ClassBased(locator) THEN "class"
    ELSE IF Len(locator) >= 3 /\ locator[2] = "[" THEN locator[3]
    ELSE "path"

\* how many elements of the document are as P says
Count(dom, P(_)) == Cardinality({c \in ElementIds(dom) : P(c)})

\* whether a level of the cascade has a locator to offer for element e
Applies(level, dom, e) ==
    LET el == dom[e]
        tag == el.tagName
        sameAttr(attr, tags) ==
            Count(dom, LAMBDA c : dom[c].tagName \in tags
                                  /\ dom[c].attrs[attr] = el.attrs[attr]) = 1
        allTags == {dom[c].tagName : c \in ElementIds(dom)}
    IN CASE level = "id" -> el.id # EmptyStr /\ isStableId(el.id)
         [] level \in {"data-testid", "data-test-id", "data-cy", "data-id"} ->
                el.attrs[level] # EmptyStr
         [] level = "name" ->
                el.attrs["name"] # EmptyStr /\ tag \in {"INPUT", "SELECT", "TEXTAREA"}
         [] level = "href" ->
                /\ tag = "A"
                /\ el.attrs["href"] \notin {EmptyStr, <<"#">>}
                /\ Head(el.attrs["href"]) # "javascript:"
                /\ \/ sameAttr("href", {"A"})
                   \/ /\ Pathname(el.attrs["href"]) # <<"/">>
                      /\ Count(dom, LAMBDA c :
                            /\ dom[c].tagName = "A"
                            /\ Contains(dom[c].attrs["href"],
                                        Pathname(el.attrs["href"]))) = 1
         [] level = "text" ->
                /\ tag \in {"BUTTON", "A", "SPAN", "DIV"}
                /\ Len(Trim(TextContent(dom, e))) \in 1..(MaxTextLength - 1)
                /\ Count(dom, LAMBDA c :
                        /\ dom[c].tagName = tag
                        /\ Trim(TextContent(dom, c)) = Trim(TextContent(dom, e))) = 1
         [] level \in {"aria-label", "title"} ->
                el.attrs[level] # EmptyStr /\ sameAttr(level, allTags)
         [] level = "class" ->
                /\ StableClasses(el.className) # << >>
                /\ Count(dom, LAMBDA c :
                        /\ dom[c].tagName = tag
                        /\ \A k \in 1..Len(StableClasses(el.className)) :
                              \E j \in 1..Len(dom[c].className) :
                                  dom[c].className[j] = StableClasses(el.className)[k]) = 1
         [] level = "placeholder" ->
                /\ tag = "INPUT"
                /\ el.attrs["placeholder"] # EmptyStr
                /\ sameAttr("placeholder", {"INPUT"})
         [] level = "path" -> TRUE

\* the first level of the cascade that applies
FirstApplicable(dom, e) ==
    Cascade[FirstOf({k \in 1..Len(Cascade) : Applies(Cascade[k], dom, e)})]

NamesId(locator, id) == Contains(locator, <<"#">> \o CssEscape(id))

\* C15: no id that is UUID-shaped, of the ':r..:' pattern, purely numeric or
\* longer than 50 characters stands in a locator generateSelector returns,
\* as the element's own '#id' or as the '#id' a CSS path starts from.
C15_UnstableIdsRejected ==
    selPc # "idle" =>
        /\ \A id \in UnstableIds : ~NamesId(selLocator, id)
        /\ selLocator[1] = "#" =>
              \E c \in ElementIds(selDom) :
                  /\ selDom[c].id \notin UnstableIds \cup {EmptyStr}
                  /\ selLocator[2] = CssEscape(selDom[c].id)[1]

\* an element inside a <div> with a UUID for its id was given a CSS path
C15_Witness ==
    /\ selPc = "synthesized"
    /\ selDom[selTarget].parent > Body
    /\ selDom[selDom[selTarget].parent].id = UuidId
    /\ selDom[selTarget].id = EmptyStr
    /\ selDom[selTarget].attrs = NoAttrs
    /\ IsPath(selLocator)

\* ------------------------------------------------------------------------
\* The data-testid scenario
\* ------------------------------------------------------------------------

\* [data-testid="submit"]
SubmitLocator ==
    <<"[", "data-testid", "=", DQ, "s", "u", "b", "m", "i", "t", DQ, "]">>

\* C16: a click recorded on the button with data-testid="submit" and the id
\* 'submit-btn-' + UUID emits a click Step whose selector is
\* [data-testid="submit"], not '#' + id.
C16_SubmitButtonScenario ==
    \A i \in 1..Len(sent) :
        sent[i].target = SubmitButton =>
            /\ sent[i].type = "click"
            /\ sent[i].selector = SubmitLocator
            /\ sent[i].selector[1] # "#"

\* ------------------------------------------------------------------------
\* A selector for every attached element
\* ------------------------------------------------------------------------

\* the elements connected to the document, shadow trees included
AttachedElements(dom) == {e \in ElementIds(dom) : dom[e].tree # Detached}

C18_AttachOncePerRoot ==
    \A h \in Hosts : registrations[h] <= 1

\* a session in which a root and the root nested inside it got their handlers,
\* and a later scan came across the outer one again
C18_Witness ==
    /\ isRecording
    /\ registrations[Host1] = 1
    /\ registrations[Host2] = 1
    /\ Host1 \in rescanned

\* the hosts that are connected to the document and have a shadow root
ConnectedRoots ==
    {h \in Hosts : h \in shadowed /\ Connected(Page, h, inserted, shadowed, indicator)}

\* C19: while recording, once the mutation observer has nothing left to
\* deliver, every shadow root of the document has the capture handlers,
\* whether its host was inserted with it or got it after its insertion.
C19_DynamicShadowDiscovery ==
    isRecording /\ mutationQueue = << >> =>
        \A h \in ConnectedRoots : ListenersOn({ShadowRootOf(h)}) \subseteq listeners

\* C20: attachedShadowRoots is empty whenever the engine is not recording.
C20_AttachedClearedOnStop ==
    ~isRecording => attachedShadowRoots = {}

\* ------------------------------------------------------------------------
\* Recording and replay side by side
\* ------------------------------------------------------------------------

\* handlePlayWorkflow or runHealthCheck is between its first and last step
InFlight(run) == run.pc \in {"ensuring", "awaiting", "delay"}

\* C21: recording and replay are mutually exclusive: the orchestrator is never
\* recording while a replay (PLAY_WORKFLOW or health check) is in flight, no
\* EXECUTE_STEP is outstanding to a tab whose content script is recording, and
\* no Step of the workflow under recording comes from a replayed action.
C21_RecordingExcludesReplay ==
    /\ \A r \in RunIds : InFlight(runs[r]) => ~bgIsRecording
    /\ \A r \in RunIds : runs[r].pc = "awaiting" => ~tabRecording[runs[r].tab]
    /\ \A i \in 1..Len(currentWorkflow.steps) :
           currentWorkflow.steps[i].origin # "replay"

\* C22: at most one replay is in flight per page context: no two replays are
\* between their first and last step in the same tab at once (their steps
\* would interleave), so no two EXECUTE_STEP messages are outstanding to one tab.
C22_OneReplayPerTab ==
    \A r1 \in RunIds : \A r2 \in RunIds \ {r1} :
        InFlight(runs[r1]) /\ InFlight(runs[r2]) => runs[r1].tab # runs[r2].tab

\* ------------------------------------------------------------------------
\* Resending a step
\* ------------------------------------------------------------------------

AttemptIndexes == 1..Len(attemptLog)

\* the sends of EXECUTE_STEP for step i so far
Sends(i) == {a \in AttemptIndexes : attemptLog[a] = Attempt("send", i, "sent")}

\* attemptLog[b] is a second send of its step
IsResend(b) ==
    /\ attemptLog[b].ev = "send"
    /\ \E a \in 1..(b - 1) : attemptLog[a] = Attempt("send", attemptLog[b].index, "sent")

\* C23: EXECUTE_STEP is sent at most twice per step; the second send follows a
\* first send that was rejected with 'Receiving end does not exist' and a
\* successful ensureContentScript; when the second send is rejected or answered
\* with a failure, the step fails and nothing more is sent.
C23_BoundedResend ==
    /\ \A i \in 0..(Len(playWorkflow.steps) - 1) : Cardinality(Sends(i)) <= 2
    /\ \A b \in AttemptIndexes :
          IsResend(b) =>
              /\ b > 3
              /\ attemptLog[b - 3] = Attempt("send", attemptLog[b].index, "sent")
              /\ attemptLog[b - 2] = Attempt("settle", attemptLog[b].index, "no receiver")
              /\ attemptLog[b - 1].ev = "ensure"
              /\ attemptLog[b - 1].kind \in {"pong", "injected"}
    /\ \A b \in AttemptIndexes :
          (IsResend(b) /\ b < Len(attemptLog) /\ attemptLog[b + 1].kind # "success") =>
              /\ b + 1 = Len(attemptLog)
              /\ playPc = "returned"
              /\ ~playResult.success
              /\ playResult.stepIndex = attemptLog[b].index

\* C24: in every replay, PLAY_WORKFLOW and health check alike, the sleep after a
\* completed step is 1500 ms when the workflow's slowMode is set and 300 ms
\* otherwise, and a replay that returned a failure is not sleeping.
C24_StepDelayBySlowMode ==
    \A r \in RunIds :
        /\ runs[r].pc = "delay" =>
               runs[r].delay = (IF runs[r].slowMode THEN SlowStepDelay ELSE FastStepDelay)
        /\ (runs[r].pc = "returned" /\ ~runs[r].success) => runs[r].delay = 0

\* ------------------------------------------------------------------------
\* The workflow under recording
\* ------------------------------------------------------------------------

\* the Step handleRecordStep stores for a message received at time t
StoredStep(msg, t) == [type |-> "click", origin |-> msg.origin, timestamp |-> t]

\* the workflow's step list only grows at its end, and its timestamps never
\* decrease in list order
GrowsByAppending ==
    /\ currentWorkflow'.id = currentWorkflow.id =>
           /\ Len(currentWorkflow.steps) <= Len(currentWorkflow'.steps)
           /\ SubSeq(currentWorkflow'.steps, 1, Len(currentWorkflow.steps)) =
                  currentWorkflow.steps
    /\ \A i \in 1..Len(currentWorkflow'.steps) :
           \A j \in i..Len(currentWorkflow'.steps) :
               currentWorkflow'.steps[i].timestamp <= currentWorkflow'.steps[j].timestamp

EffectOps == [i \in 1..Len(effects) |-> <<effects[i].op, effects[i].arg>>]

\* what EffectOps looks like once a step on a found element is done
Performed(scroll, rest) == <<scroll, <<"highlight", Null>>>> \o rest

ScrollAttempts == {<<"scrollIntoView", Null>>, <<"scrollIntoView", Thrown>>}

InputStepDone == execPc = "done" /\ execStep.type = "input" /\ execElement # 0

\* C26: an input step on a resolved <input> or <textarea> sets the value and then
\* dispatches exactly input, change, keyup in that order; on a <select> it sets
\* the value and dispatches only change; on a content-editable element it sets
\* the text content and dispatches only input; in each case the step succeeds.
C26_InputStepEvents ==
    InputStepDone =>
        /\ responses = <<Success>>
        /\ \E scroll \in ScrollAttempts :
              EffectOps =
                  Performed(scroll,
                      <<<<"focus", Null>>>> \o
                      (IF Dom[execElement].tagName = "SELECT"
                          THEN <<<<"value", execStep.value>>, <<"dispatch", "change">>>>
                       ELSE IF Dom[execElement].editable
                          THEN <<<<"textContent", execStep.value>>,
                                 <<"dispatch", "input">>>>
                       ELSE <<<<"value", execStep.value>>, <<"dispatch", "input">>,
                              <<"dispatch", "change">>, <<"dispatch", "keyup">>>>))
        /\ execElement \in ValueElems => value[execElement] = execStep.value

ClickStepDone == execPc = "done" /\ execStep.type = "click" /\ execElement # 0

\* the clicks that reached the element: a native click that returned, or a
\* synthetic click event
DeliveredClicks ==
    {i \in 1..Len(effects) : EffectOps[i] \in {<<"click", Null>>, <<"dispatch", "click">>}}

\* C27: a click step on a resolved element scrolls it into view, waits 200 ms,
\* highlights it and clicks it, in that order; exactly one click reaches the
\* element: the native click unless it throws, and then one synthetic click
\* event; the step succeeds whether or not scrollIntoView or the native click
\* throws.
C27_ClickStepDelivery ==
    ClickStepDone =>
        /\ responses = <<Success>>
        /\ \E scroll \in ScrollAttempts :
              EffectOps =
                  Performed(scroll,
                      IF execElement \in NoClickMethod
                      THEN <<<<"click", Thrown>>, <<"dispatch", "click">>>>
                      ELSE <<<<"click", Null>>>>)
        /\ effects[2].at = effects[1].at + ScrollDelay
        /\ \A i \in 3..Len(effects) : effects[i].at = effects[2].at
        /\ Cardinality(DeliveredClicks) = 1

\* the click step on the SVG icon, whose native click throws, is done
C27_Witness ==
    /\ ClickStepDone
    /\ execElement = SvgIcon
    /\ EffectOps[3] = <<"click", Thrown>>
    /\ responses = <<Success>>

\* ------------------------------------------------------------------------
\* Steps per event
\* ------------------------------------------------------------------------

\* the Steps of a type sent for the i-th event
StepsFor(i, type) == {j \in 1..Len(sent) : sent[j].ev = i /\ sent[j].type = type}

\* C28: every click dispatched while recording on an element outside the
\* recording indicator, in the light DOM or in a shadow tree, yields exactly
\* one click Step, and that Step is for the clickable target of the clicked
\* element; every change event on a <select> yields exactly one input Step.
C28_OneStepPerEvent ==
    \A i \in 1..Len(events) :
        /\ (/\ events[i].rec
            /\ events[i].type = "click"
            /\ ~ClosestIndicator(Dom, events[i].target)) =>
               /\ Cardinality(StepsFor(i, "click")) = 1
               /\ \A j \in StepsFor(i, "click") :
                      sent[j].target = getClickableElement(Dom, events[i].target)
        /\ (/\ events[i].rec
            /\ events[i].type = "change"
            /\ Dom[events[i].target].tagName = "SELECT") =>
               Cardinality(StepsFor(i, "input")) = 1

\* ------------------------------------------------------------------------
\* Which match waitForElement accepts
\* ------------------------------------------------------------------------

\* the step's locator is a single CSS alternative
SingleCssLocator ==
    /\ Len(Alternatives(execStep.selector)) = 1
    /\ ~TextMatch(Alternatives(execStep.selector)[1]).ok

\* the page is as the last poll of waitForElement saw it
AsPolled == polls >= 1 /\ changedAt = NoTime

\* C29: for a CSS alternative, waitForElement accepts the first element in
\* document order that matches the selector and is visible: when the first match
\* is hidden and a later match is visible, the poll returns the visible one.
C29_FirstVisibleMatch ==
    (SingleCssLocator /\ AsPolled) =>
        execElement =
            FirstVisible(Dom, querySelectorAll(Dom, Alternatives(execStep.selector)[1]).elems)

\* ------------------------------------------------------------------------
\* Commas inside a locator
\* ------------------------------------------------------------------------

\* the document has one element whose trimmed text is 'a, b', generateSelector
\* gave it the text locator, and waitForElement has run on that locator
CommaTextResolved ==
    /\ selPc = "resolved"
    /\ Trim(TextContent(selDom, selTarget)) = CommaText
    /\ TextMatch(selLocator).ok
    /\ UnescapeQuotes(TextMatch(selLocator).text) = CommaText

\* C30: waitForElement splits a locator at top-level commas only: the
\* locator tag:text("a, b") synthesized for an element whose trimmed text is
\* 'a, b' is one text-match alternative and resolves to that element.
C30_CommaInTextLocator ==
    CommaTextResolved =>
        /\ Alternatives(selLocator) = <<selLocator>>
        /\ selResolved = selTarget

\* ------------------------------------------------------------------------
\* Where the CSS path stops
\* ------------------------------------------------------------------------

\* the j-th ancestor of element e (e itself for j = 0), 0 above the root
RECURSIVE AncestorAt(_, _, _)
AncestorAt(dom, e, j) ==
    IF e = 0 \/ j = 0 THEN e ELSE AncestorAt(dom, dom[e].parent, j - 1)

\* the ancestor has a stable id, or its segment is its tag with an attribute
\* that matches one element of the document
EndsThePath(dom, a) ==
    \/ dom[a].id # EmptyStr /\ isStableId(dom[a].id)
    \/ \E attr \in {"data-testid", "data-test-id", "data-cy", "data-id", "name",
                    "aria-label", "role"} :
          /\ dom[a].attrs[attr] # EmptyStr
          /\ PathSegment(dom, a) =
                AttrSelector(<<ToLowerCase(dom[a].tagName)>>, attr, "=", dom[a].attrs[attr])

\* generateSelector fell through to getCssPath for the target
PathSynthesized ==
    /\ selPc = "synthesized"
    /\ selLocator = getCssPath(selDom, selTarget)

\* C40: getCssPath stops walking toward the root as soon as it has prepended
\* the segment of an ancestor with a stable id, or of an ancestor whose tag and
\* attribute match one element of the document: only the outermost segment of
\* the path can be such a segment, and the path has at most 5 segments.
C40_CssPathStops ==
    PathSynthesized =>
        With(CssPathWalk(selDom, selTarget, << >>), LAMBDA path :
            /\ Len(path) <= MaxPathLength + 1
            /\ \A j \in 0..(Len(path) - 2) :
                   ~EndsThePath(selDom, AncestorAt(selDom, selTarget, j)))

\* ------------------------------------------------------------------------
\* The workflow store as a map from ids to workflows
\* ------------------------------------------------------------------------

\* the positions of the store that hold a workflow with the id
PositionsOf(list, id) == {k \in 1..Len(list) : list[k].id = id}

\* no id twice in the store
DistinctIds == \A id \in WorkflowIds : Cardinality(PositionsOf(workflows, id)) <= 1

\* this step is the return of a call of the kind that ran with no other call
\* under way, in a history of calls that never overlapped
ReturnsAlone(kind) ==
    /\ ~overlapped
    /\ Len(calls) = 1
    /\ calls[1].kind = kind
    /\ calls' = << >>

\* saveWorkflow's effect: the entry with the id replaced where it is, or the
\* workflow appended; every other entry as it was
SavedInPlace ==
    LET id == calls[1].id
        at == PositionsOf(workflows, id)
    IN  IF at = {}
        THEN /\ Len(workflows') = Len(workflows) + 1
             /\ workflows'[Len(workflows')] = calls[1].workflow
             /\ \A k \in 1..Len(workflows) : workflows'[k] = workflows[k]
        ELSE /\ Len(workflows') = Len(workflows)
             /\ \A k \in 1..Len(workflows) :
                    workflows'[k] = IF k \in at THEN calls[1].workflow ELSE workflows[k]

\* deleteWorkflow's effect: the entries with the id are gone, the others are
\* kept in their order; nothing changes when the id is not in the store
DeletedById ==
    /\ PositionsOf(workflows', calls[1].id) = {}
    /\ workflows' = SelectSeq(workflows, LAMBDA w : w.id # calls[1].id)
    /\ PositionsOf(workflows, calls[1].id) = {} => workflows' = workflows

\* C36: with saveWorkflow and deleteWorkflow calls completed one after the
\* other on a store with distinct ids, the store holds at most one workflow per
\* id; saveWorkflow replaces the entry of the same id in place or appends a new
\* id and leaves the other entries alone; deleteWorkflow removes exactly the
\* entries with the id and changes nothing when run again.
C36_StoreIsIdKeyedMap ==
    /\ [](~overlapped => DistinctIds)
    /\ [][(ReturnsAlone("save") => SavedInPlace)
          /\ (ReturnsAlone("delete") => DeletedById)]_vars

\* calls made one after the other have replaced the first of two entries where
\* it was, and a delete has returned as well
C36_Witness ==
    /\ ~overlapped
    /\ calls = << >>
    /\ Len(workflows) = 2
    /\ workflows[1].id = 2
    /\ workflows[1].steps # << >>
    /\ \E k \in 1..Len(completed) : completed[k].kind = "delete"
    /\ \E k \in 1..Len(completed) : completed[k].kind = "save" /\ completed[k].id = 2

\* ------------------------------------------------------------------------
\* Overlapping storage calls
\* ------------------------------------------------------------------------

\* what a completed call leaves in the store when nothing undoes it
Reflected(call) ==
    IF call.kind = "save" THEN \E k \in 1..Len(workflows) : workflows[k] = call.workflow
    ELSE PositionsOf(workflows, call.id) = {}

\* two calls on the workflows of different ids overlapped and both returned
TwoOverlappedReturned ==
    /\ callsMade = 2
    /\ overlapped
    /\ calls = << >>
    /\ Len(completed) = 2
    /\ completed[1].id # completed[2].id
    /\ {completed[1].kind, completed[2].kind} \in {{"save"}, {"save", "delete"}}

\* C37: when two saveWorkflow calls for different ids, or a saveWorkflow and a
\* deleteWorkflow of another id, overlap in time, the store reflects both
\* once both have returned.
C37_NoLostUpdate ==
    TwoOverlappedReturned => Reflected(completed[1]) /\ Reflected(completed[2])

\* ------------------------------------------------------------------------
\* Schedules, alarms and the workflows they are for
\* ------------------------------------------------------------------------

\* the workflows with a schedule entry
Scheduled == {w \in WorkflowIds : schedules[w] # NoSchedule}

\* scheduleWorkflow and deleteWorkflow calls only, completed one after the other
ScheduledAndDeletedInTurn ==
    /\ ~overlapped
    /\ calls = << >>
    /\ \A k \in 1..Len(completed) : completed[k].kind \in {"schedule", "delete"}

\* C39: after scheduleWorkflow and deleteWorkflow calls completed one after
\* the other, a workflow has a health-check alarm iff it has a schedule entry
\* (created with lastStatus null), and every schedule entry and alarm is for a
\* workflow that is in the store.
C39_ScheduleConsistency ==
    ScheduledAndDeletedInTurn =>
        /\ alarms = Scheduled
        /\ \A w \in Scheduled :
               /\ schedules[w].intervalMinutes > 0
               /\ schedules[w].lastStatus = "null"
        /\ \A w \in Scheduled \cup alarms : PositionsOf(workflows, w) # {}

\* ------------------------------------------------------------------------
\* One recording session at a time
\* ------------------------------------------------------------------------

\* the calls of the kind that ended with the result, by their place in the log
EndedWith(ev, result) ==
    {k \in 1..Len(sessionLog) : sessionLog[k].ev = ev /\ sessionLog[k].result = result}

\* C31: at most one recording session exists: of the START_RECORDING requests,
\* however they interleave, at most one succeeds until a STOP_RECORDING has
\* completed; between two starts that answered success a stop answered success.
C31_OneSessionAtATime ==
    \A a \in EndedWith("start", "success") : \A b \in EndedWith("start", "success") :
        a < b => \E k \in EndedWith("stop", "success") : a < k /\ k < b

\* ------------------------------------------------------------------------
\* What a stop stores and what it answers
\* ------------------------------------------------------------------------

\* C32: when STOP_RECORDING succeeds, the workflow written to the store and the
\* workflow in the answer are the same, with the same Steps in the same order:
\* a Step that arrives while the stop is under way is in both or in neither.
C32_StoredIsReturned ==
    \A k \in EndedWith("stop", "success") :
        sessionLog[k].stored = sessionLog[k].returned

\* ------------------------------------------------------------------------
\* What GET_STATE can see
\* ------------------------------------------------------------------------

\* C33: in every state GET_STATE can answer from (the handlers are suspended
\* at their awaits or not running), isRecording is true iff currentWorkflow is
\* not null iff recordingTabId is not null.
C33_StateConsistency ==
    /\ bgIsRecording <=> currentWorkflow # NoWorkflow
    /\ bgIsRecording <=> recordingTabId # NoTab

\* ------------------------------------------------------------------------
\* A start that fails
\* ------------------------------------------------------------------------

OrchestratorIdle ==
    /\ ~bgIsRecording
    /\ currentWorkflow = NoWorkflow
    /\ recordingTabId = NoTab

OnlyFailedStarts ==
    /\ starting = << >>
    /\ stopping = << >>
    /\ sessionLog # << >>
    /\ \A k \in 1..Len(sessionLog) :
           sessionLog[k].ev = "start" /\ sessionLog[k].result # "success"

\* C34: when every START_RECORDING so far has answered a failure and none is
\* under way, the orchestrator is idle as it was before them: not recording,
\* no workflow, no tab.
C34_FailedStartLeavesIdle == OnlyFailedStarts => OrchestratorIdle

\* ------------------------------------------------------------------------
\* The content engine of the recording tab
\* ------------------------------------------------------------------------

\* the last call to have answered is a START_RECORDING that succeeded, and no
\* start or stop is under way
StartAcknowledged ==
    /\ starting = << >>
    /\ stopping = << >>
    /\ sessionLog # << >>
    /\ sessionLog[Len(sessionLog)].ev = "start"
    /\ sessionLog[Len(sessionLog)].result = "success"

\* C35: while the orchestrator records on a tab and the start has been
\* acknowledged, the content engine of that tab is recording, also after the
\* tab was reloaded or navigated.
C35_ContentEngineRecords ==
    (StartAcknowledged /\ bgIsRecording /\ recordingTabId # NoTab)
        => tabRecording[recordingTabId]

\* ------------------------------------------------------------------------
\* What a health check leaves behind
\* ------------------------------------------------------------------------

\* runHealthCheck returns for a workflow it has found
HealthReturns ==
    /\ health.pc # "returned"
    /\ health'.pc = "returned"
    /\ health'.result # "not found"

\* no call that writes the schedules was under way during the run
RanAlone(h) == h.alone /\ h.callsBefore = callsMade

\* every step of the workflow was executed and none threw
EveryStepCompleted(h) == h.failedAt = 0 /\ Len(h.executed) = h.len

\* the steps were taken in order and none after one that threw
StepsInOrder(h) ==
    /\ h.executed = [k \in 1..Len(h.executed) |-> k]
    /\ h.failedAt # 0 => h.failedAt = Len(h.executed)

\* the schedule entry of the workflow tells how the run went
StatusTellsTheRun(h, entry) ==
    IF EveryStepCompleted(h)
    THEN entry.lastStatus = "success"
    ELSE entry.lastStatus = "failed" /\ entry.lastError

\* C38: when runHealthCheck returns (from a run during which nothing else
\* wrote the schedules), the steps were executed in order up to the first that
\* failed, the tab it created is closed, the schedule entry of the workflow
\* (if any) says 'success' iff every step completed and 'failed' with
\* lastError otherwise, and a notification was requested iff the run failed;
\* writing the status creates no schedule entry.
C38_HealthCheckOutcome ==
    [][/\ (HealthReturns /\ RanAlone(health)) =>
            /\ StepsInOrder(health')
            /\ health'.tabCreated /\ ~health'.tabOpen
            /\ schedules'[health.id] # NoSchedule =>
                   StatusTellsTheRun(health', schedules'[health.id])
            /\ health'.notified <=> ~EveryStepCompleted(health')
       /\ (health.pc = "writing" /\ RanAlone(health)
               /\ schedules[health.id] = NoSchedule) =>
              schedules'[health.id] = NoSchedule]_vars

====
